---- MODULE Spec2Model ----
(***************************************************************************)
(* Model of the tracing-web-console log store and its query endpoint:      *)
(* LogStorage (storage.rs) and get_logs (api/logs.rs).                      *)
(*                                                                         *)
(* Strings are sequences of one-character strings, so that to_uppercase,   *)
(* to_lowercase, starts_with and contains are computed and not assumed.    *)
(* Option<T> is a sequence of length at most one: None is <<>>, Some(x) is  *)
(* <<x>>.                                                                   *)
(***************************************************************************)
EXTENDS Integers, Sequences, FiniteSets, TLC

VARIABLES
    max_events,  \* LogStorage::max_events
    events,      \* LogStorage::events, oldest first
    tx,          \* LogStorage::tx, the broadcast channel
    pushed,      \* every event pushed so far, in push order
    last,        \* the get_logs exchange being answered, or None
    rx,          \* the broadcast receivers made by LogStorage::subscribe
    lock,        \* the RwLock around `events`: its writer and its readers
    prod,        \* the threads inside LogStorage::push, and where they are
    reader,      \* the thread inside LogStorage::get_filtered
    pager,       \* the pages a client fetched one after the other
    hook,        \* the raw events the capture hook was given, with their outcome
    spans,       \* the spans the emitting thread is inside, outermost first
    ws,          \* the WebSocket connections: where each handler is, what it sent
    rust_log,    \* the environment variable RUST_LOG of the process
    process      \* the global default subscriber and the TracingLayers constructed

store == <<max_events, events, tx, pushed, last>>
conc == <<rx, lock, prod, reader, pager, hook, spans, ws, rust_log, process>>
vars == <<max_events, events, tx, pushed, last, rx, lock, prod, reader, pager, hook,
          spans, ws, rust_log, process>>

(***************************************************************************)
(* Bounds of the model.                                                    *)
(***************************************************************************)
MaxCap == 3
MaxPush == 3
MaxLimit == 2
MaxOffset == 2
MaxSubs == 2
MaxProducers == 2
MaxBusPush == 3

(***************************************************************************)
(* Program constants.                                                      *)
(***************************************************************************)
BROADCAST_CAPACITY == 100

Receivers == 1..MaxSubs
Producers == 1..MaxProducers

\* Option<T>
None == <<>>
Some(x) == <<x>>
is_some(o) == Len(o) = 1
unwrap(o) == o[1]

Min(a, b) == IF a <= b THEN a ELSE b

(***************************************************************************)
(* str: case conversion (ASCII letters), prefix and substring tests.       *)
(***************************************************************************)
UpperAlpha ==
    <<"A","B","C","D","E","F","G","H","I","J","K","L","M",
      "N","O","P","Q","R","S","T","U","V","W","X","Y","Z">>
LowerAlpha ==
    <<"a","b","c","d","e","f","g","h","i","j","k","l","m",
      "n","o","p","q","r","s","t","u","v","w","x","y","z">>

char_to_uppercase(c) ==
    IF \E i \in 1..26 : LowerAlpha[i] = c
    THEN UpperAlpha[CHOOSE i \in 1..26 : LowerAlpha[i] = c]
    ELSE c

char_to_lowercase(c) ==
    IF \E i \in 1..26 : UpperAlpha[i] = c
    THEN LowerAlpha[CHOOSE i \in 1..26 : UpperAlpha[i] = c]
    ELSE c

to_uppercase(s) == [i \in 1..Len(s) |-> char_to_uppercase(s[i])]

to_lowercase(s) == [i \in 1..Len(s) |-> char_to_lowercase(s[i])]

starts_with(s, p) == Len(p) <= Len(s) /\ SubSeq(s, 1, Len(p)) = p

contains(s, p) ==
    \E i \in 0..(Len(s) - Len(p)) : SubSeq(s, i + 1, i + Len(p)) = p

\* Iterator adaptors used by get_filtered.
rev(s) == [i \in 1..Len(s) |-> s[Len(s) + 1 - i]]
skip(s, n) == SubSeq(s, n + 1, Len(s))
take(s, n) == SubSeq(s, 1, Min(n, Len(s)))

(***************************************************************************)
(* Level names.                                                            *)
(***************************************************************************)
TRACE == <<"T","R","A","C","E">>
DEBUG == <<"D","E","B","U","G">>
INFO == <<"I","N","F","O">>
WARN == <<"W","A","R","N">>
ERROR == <<"E","R","R","O","R">>

level_to_number_inverted(level) ==
    LET u == to_uppercase(level) IN
    CASE u = ERROR -> 1
      [] u = WARN -> 2
      [] u = INFO -> 3
      [] u = DEBUG -> 4
      [] u = TRACE -> 5
      [] OTHER -> 0

level_to_number(level) ==
    LET u == to_uppercase(level) IN
    CASE u = ERROR -> 5
      [] u = WARN -> 4
      [] u = INFO -> 3
      [] u = DEBUG -> 2
      [] u = TRACE -> 1
      [] OTHER -> 0


(***************************************************************************)
(* LogStorage                                                              *)
(***************************************************************************)

\* VecDeque::pop_front: None on an empty deque, which is left as it is.
pop_front(q) == IF q = <<>> THEN q ELSE Tail(q)

\* tx.send(event) of push: an error, which push ignores, when the channel has
\* no receiver; otherwise the channel takes the value.
send(t, event) ==
    IF t.rx_cnt = 0 THEN t ELSE [t EXCEPT !.sent = Append(@, event)]

\* The ring after LogStorage::push.
push(q, cap, event) ==
    LET evicted == IF Len(q) >= cap THEN pop_front(q) ELSE q
    IN  Append(evicted, event)

\* The key of target_levels that decides: Iterator::max_by_key over the
\* applicable entries in the map's iteration order; of several maxima the last.
RECURSIVE max_by_key(_, _)
max_by_key(entries, best) ==
    IF entries = <<>> THEN best
    ELSE LET x == Head(entries) IN
         max_by_key(Tail(entries),
                    IF best = None \/ Len(x[1]) >= Len(unwrap(best)[1])
                    THEN Some(x) ELSE best)

SEP == <<":", ":">>

target_applies_plain_prefix(target, key) ==
    target = key \/ starts_with(target, key)

\* The closure of the filter over target_levels in matches_filter.
target_applies(target, key) ==
    target = key \/ starts_with(target, key \o SEP)

\* target_level.or(filter.global_level) of matches_filter.
required_level(event, filter) ==
    LET matching == SelectSeq(filter.target_levels,
                              LAMBDA kv : target_applies(event.target, kv[1]))
        winner == max_by_key(matching, None)
        target_level == IF is_some(winner) THEN Some(unwrap(winner)[2]) ELSE None
    IN  IF is_some(target_level) THEN target_level ELSE filter.global_level

level_gate(event, filter) ==
    LET required == required_level(event, filter) IN
    is_some(required) =>
        ~(level_to_number(event.level) < level_to_number(unwrap(required)))

target_gate(event, filter) ==
    is_some(filter.target) =>
        contains(to_lowercase(event.target), to_lowercase(unwrap(filter.target)))

search_gate_case_sensitive(event, filter) ==
    is_some(filter.search) => contains(event.message, unwrap(filter.search))

search_gate(event, filter) ==
    is_some(filter.search) =>
        contains(to_lowercase(event.message), to_lowercase(unwrap(filter.search)))

matches_filter_text_or(event, filter) ==
    /\ level_gate(event, filter)
    /\ \/ ~is_some(filter.target) /\ ~is_some(filter.search)
       \/ is_some(filter.target) /\ target_gate(event, filter)
       \/ is_some(filter.search) /\ search_gate(event, filter)

\* LogStorage::matches_filter: three early returns, then true.
matches_filter(event, filter) ==
    /\ level_gate(event, filter)
    /\ target_gate(event, filter)
    /\ search_gate(event, filter)


SortOrder == {"NewestFirst", "OldestFirst"}

get_filtered_paginate_first(ring, filter, limit, offset) ==
    LET off == IF is_some(offset) THEN unwrap(offset) ELSE 0
        filtered == SelectSeq(ring, LAMBDA e : matches_filter(e, filter))
        skipped == skip(filtered, off)
        page == IF is_some(limit) THEN take(skipped, unwrap(limit)) ELSE skipped
    IN  [logs |-> IF filter.sort_order = "NewestFirst" THEN rev(page) ELSE page,
         total |-> Len(filtered)]

get_filtered_limit_zero_is_all(ring, filter, limit, offset) ==
    LET off == IF is_some(offset) THEN unwrap(offset) ELSE 0
        filtered == SelectSeq(ring, LAMBDA e : matches_filter(e, filter))
        ordered == IF filter.sort_order = "NewestFirst" THEN rev(filtered) ELSE filtered
        skipped == skip(ordered, off)
    IN  [logs |-> IF is_some(limit) /\ unwrap(limit) > 0
                  THEN take(skipped, unwrap(limit)) ELSE skipped,
         total |-> Len(filtered)]

\* LogStorage::get_filtered on the ring read under the read lock.
\* take(limit.unwrap_or(usize::MAX)) keeps all of the rest when limit is None:
\* no sequence is longer than usize::MAX.
get_filtered(ring, filter, limit, offset) ==
    LET off == IF is_some(offset) THEN unwrap(offset) ELSE 0
        filtered == SelectSeq(ring, LAMBDA e : matches_filter(e, filter))
        total_filtered == Len(filtered)
        ordered == IF filter.sort_order = "NewestFirst" THEN rev(filtered) ELSE filtered
        skipped == skip(ordered, off)
        paginated == IF is_some(limit) THEN take(skipped, unwrap(limit)) ELSE skipped
    IN  [logs |-> paginated, total |-> total_filtered]

(***************************************************************************)
(* get_logs (POST /api/logs)                                               *)
(***************************************************************************)

parse_sort_order_case_insensitive(sort_order) ==
    IF sort_order \in {Some("oldest_first"), Some("OLDEST_FIRST")}
    THEN "OldestFirst" ELSE "NewestFirst"

parse_sort_order(sort_order) ==
    IF sort_order = Some("oldest_first") THEN "OldestFirst" ELSE "NewestFirst"

\* Option::filter(|s| !s.is_empty())
non_empty(o) == IF is_some(o) /\ unwrap(o) # <<>> THEN o ELSE None

\* The LogFilter get_logs builds. `order` is the order in which the collected
\* HashMap iterates over its keys.
build_filter(request, order) ==
    [global_level |-> IF is_some(request.global_level)
                      THEN Some(to_uppercase(unwrap(request.global_level)))
                      ELSE None,
     target_levels |-> [i \in 1..Len(order) |->
                          <<order[i], to_uppercase(request.target_levels[order[i]])>>],
     search |-> non_empty(request.search),
     target |-> non_empty(request.target),
     sort_order |-> parse_sort_order(request.sort_order)]

get_logs_rejects_blank(ring, request, order) ==
    LET filter == build_filter(request, order)
        result == get_filtered(ring, filter, request.limit, Some(request.offset))
        blank == request.search = Some(<<>>) \/ request.target = Some(<<>>)
    IN  [logs |-> IF blank THEN <<>> ELSE result.logs,
         total |-> IF blank THEN 0 ELSE result.total,
         status |-> IF blank THEN 400 ELSE 200]

\* The response of get_logs: Json(LogsResponse).into_response() is 200 OK.
get_logs(ring, request, order) ==
    LET filter == build_filter(request, order)
        result == get_filtered(ring, filter, request.limit, Some(request.offset))
    IN  [logs |-> result.logs, total |-> result.total, status |-> 200]


(***************************************************************************)
(* Inputs: the events the capture hook delivers and the request bodies.    *)
(***************************************************************************)
T_a == <<"a">>
T_ab == <<"a","b">>
T_a_x == <<"a",":",":","x">>
T_a_x_y == <<"a",":",":","x",":",":","y">>
T_a_o == <<"a",":",":","o">>
T_Ab == <<"A","b">>

\* level, target and message of the events pushed; the timestamp is added by Push.
EventPool ==
    { [level |-> INFO,  target |-> T_a_x_y, message |-> <<"h","i"," ","w","o">>],
      [level |-> WARN,  target |-> T_a_o,   message |-> <<"B","Y","E"," ","W","O">>],
      [level |-> DEBUG, target |-> T_ab,    message |-> <<"t","e","s","t">>],
      [level |-> ERROR, target |-> T_a_x,   message |-> <<"W","o">>],
      [level |-> TRACE, target |-> T_Ab,    message |-> <<"H","i">>] }

NoTargetLevels == [k \in {} |-> <<>>]

TargetLevelsPool ==
    { NoTargetLevels,
      (T_a :> <<"w","a","r","n">>) @@ (T_a_x :> <<"E","R","R","O","R">>),
      (T_a :> <<"t","r","a","c","e">>),
      (T_a :> <<"e","r","r","o","r">>) @@ (T_a_x_y :> <<"D","e","b","u","g">>) }

GlobalLevelPool ==
    { None, Some(<<"w","a","r","n">>), Some(ERROR), Some(<<"b","o","g","u","s">>) }

SearchPool == { None, Some(<<>>), Some(<<"W","O">>), Some(<<"h","i">>) }

TargetPool == { None, Some(<<>>), Some(<<"A">>), Some(<<":",":","X">>) }

SortOrderPool == { None, Some("oldest_first"), Some("OLDEST_FIRST") }

LimitPool == { None } \cup { Some(n) : n \in 0..MaxLimit }

DefaultRequest ==
    [limit |-> None, offset |-> 0, global_level |-> None,
     target_levels |-> NoTargetLevels, search |-> None, target |-> None,
     sort_order |-> None]

PageRequests ==
    { [DefaultRequest EXCEPT !.limit = l, !.offset = o, !.sort_order = so,
                             !.global_level = g] :
        l \in LimitPool, o \in 0..MaxOffset, so \in SortOrderPool,
        g \in { None, Some(<<"w","a","r","n">>) } }

LevelRequests ==
    { [DefaultRequest EXCEPT !.global_level = g, !.target_levels = tl] :
        g \in GlobalLevelPool, tl \in TargetLevelsPool }

TextRequests ==
    { [DefaultRequest EXCEPT !.search = s, !.target = t, !.global_level = g] :
        s \in SearchPool, t \in TargetPool, g \in { None, Some(INFO) } }

Requests == PageRequests \cup LevelRequests \cup TextRequests

\* The orders in which a HashMap with the keys S can iterate.
iteration_orders(S) ==
    { o \in [1..Cardinality(S) -> S] :
        \A i, j \in 1..Cardinality(S) : i # j => o[i] # o[j] }

(***************************************************************************)
(* State machine                                                           *)
(***************************************************************************)

\* No WebSocket upgrade was asked for: no handler, nothing sent, nothing read.
\* RUST_LOG is not set, or is set to enable every event.
UNSET == "unset"
RustLogs == {UNSET, "trace"}

\* No TracingLayer has been constructed through TracingLayer::with_capacity
\* and no global default subscriber is set. The specifications of a single
\* LogStorage leave it so.
NoLayers == [global_default |-> None, layers |-> <<>>, emitted |-> 0, panicked |-> FALSE]

NoConnection == [pc |-> "none", out |-> <<>>, pending |-> None, seen |-> <<>>]

\* No receiver yet (the one broadcast::channel returns is dropped at once), the
\* lock free, no thread inside push or get_filtered, nothing fetched or captured.
Quiet ==
    /\ rx = [r \in Receivers |-> [live |-> FALSE, next |-> 0, start |-> 0, got |-> <<>>]]
    /\ lock = [writer |-> 0, readers |-> {}]
    /\ prod = [p \in Producers |-> [pc |-> "idle", event |-> None]]
    /\ reader = [pc |-> "idle", result |-> None]
    /\ pager = <<>>
    /\ hook = <<>>
    /\ spans = <<>>
    /\ ws = [c \in Receivers |-> NoConnection]
    /\ rust_log = UNSET
    /\ process = NoLayers

\* LogStorage::with_capacity, called by TracingLayer::with_capacity.
Init ==
    /\ max_events \in 0..MaxCap
    /\ events = <<>>
    /\ tx = [capacity |-> BROADCAST_CAPACITY, rx_cnt |-> 0, sent |-> <<>>]
    /\ pushed = <<>>
    /\ last = None
    /\ Quiet

\* LogStorage::push, whole under the write lock of the ring. The event is one
\* the capture hook assembled; its timestamp is its place among the pushes.
\* An exchange recorded in `last` describes the ring before this push and is
\* let go.
Push ==
    /\ Len(pushed) < MaxPush
    /\ \E t \in EventPool :
         LET event == [timestamp |-> Len(pushed) + 1, level |-> t.level,
                       target |-> t.target, message |-> t.message]
         IN  /\ events' = push(events, max_events, event)
             /\ tx' = send(tx, event)
             /\ pushed' = Append(pushed, event)
    /\ last' = None
    /\ UNCHANGED <<max_events, conc>>

\* get_logs, whole: the request, the filter built from it, the ring it read
\* under the read lock and the response. `last` holds one exchange: get_logs
\* changes nothing in the store, so answering the requests one after the other
\* reaches every response that concurrent requests can get.
GetLogs ==
    /\ last = None
    /\ \E request \in Requests :
         \E order \in iteration_orders(DOMAIN request.target_levels) :
            last' = Some([request |-> request,
                          filter |-> build_filter(request, order),
                          ring |-> events,
                          response |-> get_logs(events, request, order)])
    /\ UNCHANGED <<max_events, events, tx, pushed, conc>>

\* The response has been written to the client.
Reply ==
    /\ last # None
    /\ last' = None
    /\ UNCHANGED <<max_events, events, tx, pushed, conc>>

Next == Push \/ GetLogs \/ Reply

Spec == Init /\ [][Next]_vars


(***************************************************************************)
(* The filter as the specification states it, written without the          *)
(* operators of the model above.                                           *)
(***************************************************************************)
ClaimLevelNum(name) ==
    IF name = TRACE THEN 1
    ELSE IF name = DEBUG THEN 2
    ELSE IF name = INFO THEN 3
    ELSE IF name = WARN THEN 4
    ELSE IF name = ERROR THEN 5
    ELSE 0

\* The target equals the key, or begins with the key followed by "::".
ClaimApplies(key, target) ==
    \/ target = key
    \/ /\ Len(target) >= Len(key) + 2
       /\ \A i \in 1..Len(key) : target[i] = key[i]
       /\ target[Len(key) + 1] = ":"
       /\ target[Len(key) + 2] = ":"

ClaimKeys(f) == { f.target_levels[i][1] : i \in 1..Len(f.target_levels) }

ClaimLevelOf(f, key) ==
    f.target_levels[CHOOSE i \in 1..Len(f.target_levels) : f.target_levels[i][1] = key][2]

ClaimApplicable(e, f) == { k \in ClaimKeys(f) : ClaimApplies(k, e.target) }

ClaimLongest(S) == CHOOSE k \in S : \A k2 \in S : Len(k2) <= Len(k)

\* The required level number: the longest applicable key's, else the global
\* level's, else 0 (no gate).
ClaimRequiredNum(e, f) ==
    IF ClaimApplicable(e, f) # {}
    THEN ClaimLevelNum(ClaimLevelOf(f, ClaimLongest(ClaimApplicable(e, f))))
    ELSE IF f.global_level # None THEN ClaimLevelNum(f.global_level[1])
    ELSE 0

ClaimLevelGate(e, f) == ClaimLevelNum(e.level) >= ClaimRequiredNum(e, f)

SameLetter(a, b) ==
    a = b \/ \E i \in 1..26 : {a, b} = {UpperAlpha[i], LowerAlpha[i]}

\* needle occurs in hay, letters compared without regard to case.
ClaimContainsCI(hay, needle) ==
    \E k \in 0..(Len(hay) - Len(needle)) :
        \A j \in 1..Len(needle) : SameLetter(hay[k + j], needle[j])

ClaimTargetOK(e, f) ==
    f.target = None \/ ClaimContainsCI(e.target, f.target[1])

ClaimSearchOK(e, f) ==
    f.search = None \/ ClaimContainsCI(e.message, f.search[1])

ClaimMatches(e, f) ==
    ClaimLevelGate(e, f) /\ ClaimTargetOK(e, f) /\ ClaimSearchOK(e, f)

\* Positions of the ring whose event satisfies P.
Positions(ring, P(_)) == { i \in 1..Len(ring) : P(ring[i]) }

\* The n-th position of S counted from the oldest, or from the newest.
NthOldest(S, n) == CHOOSE i \in S : Cardinality({ x \in S : x < i }) = n - 1
NthNewest(S, n) == CHOOSE i \in S : Cardinality({ x \in S : x > i }) = n - 1

InLogs(e, logs) == \E k \in 1..Len(logs) : logs[k] = e

Answered == last # None
Q == last[1]
FullPage == Q.request.limit = None /\ Q.request.offset = 0

(***************************************************************************)
(* Claims                                                                  *)
(***************************************************************************)

\* C1: after N push calls on a fresh LogStorage of capacity C the ring holds
\* exactly min(N, C) events, and when N > C they are the last C pushed, in
\* push order.
C1_RingIsLastMinNC ==
    LET N == Len(pushed)
        C == max_events
    IN  /\ Len(events) = Min(N, C)
        /\ N > C => events = SubSeq(pushed, N - C + 1, N)

\* C2: with capacity 0 the ring stays empty after any pushes, and an
\* unfiltered get_filtered returns no logs and total 0.
C2_CapacityZeroStaysEmpty ==
    max_events = 0 =>
        /\ events = <<>>
        /\ (Answered /\ Q.request = DefaultRequest) =>
               (Q.response.logs = <<>> /\ Q.response.total = 0)

\* C3: get_filtered returns total = the number of ring events satisfying the
\* filter, and logs = the satisfying events in the filter's sort order with
\* the first `offset` skipped and at most `limit` kept (all when limit is
\* absent).
C3_TotalAndPage ==
    Answered =>
        LET f == Q.filter
            M == Positions(Q.ring, LAMBDA e : ClaimMatches(e, f))
            off == Q.request.offset
            rest == IF Cardinality(M) > off THEN Cardinality(M) - off ELSE 0
            n == IF Q.request.limit = None THEN rest
                 ELSE Min(Q.request.limit[1], rest)
            logs == Q.response.logs
        IN  /\ Q.response.total = Cardinality(M)
            /\ Len(logs) = n
            /\ \A k \in 1..n :
                 logs[k] = Q.ring[IF f.sort_order = "OldestFirst"
                                  THEN NthOldest(M, off + k)
                                  ELSE NthNewest(M, off + k)]

\* C3 witness: three events satisfy the filter, one is skipped and one of the
\* remaining two is kept.
C3_Witness ==
    /\ Answered
    /\ Q.response.total = 3
    /\ Q.request.offset = 1
    /\ Q.request.limit = Some(1)
    /\ Len(Q.response.logs) = 1
    /\ Q.response.logs[1] = Q.ring[2]


\* C4: an event passes the level gate iff levelnum(event level) >=
\* levelnum(required), required being the matching target_levels entry's
\* level, else the global level, else no gate; names other than TRACE..ERROR
\* count 0. Read off the responses whose filter sets neither target nor search.
C4_LevelGate ==
    (Answered /\ FullPage /\ Q.filter.target = None /\ Q.filter.search = None) =>
        \A i \in 1..Len(Q.ring) :
            InLogs(Q.ring[i], Q.response.logs) <=> ClaimLevelGate(Q.ring[i], Q.filter)

\* C4 witness: an unknown global level name lets a TRACE event through, in the
\* same ring a known one would gate.
C4_Witness ==
    /\ Answered /\ FullPage
    /\ Q.filter.target = None /\ Q.filter.search = None
    /\ Q.filter.target_levels = <<>>
    /\ Q.filter.global_level = Some(<<"B","O","G","U","S">>)
    /\ \E i \in 1..Len(Q.ring) :
          Q.ring[i].level = TRACE /\ InLogs(Q.ring[i], Q.response.logs)

\* C5: a target_levels key applies iff the event target equals it or starts
\* with it followed by "::"; among the applicable keys exactly one is longest
\* and its level alone decides, whatever the global level; an event no key
\* applies to is not gated by target_levels; the response does not depend on
\* the order in which the map iterates.
C5_LongestPrefixDecides ==
    (Answered /\ FullPage /\ Q.filter.target = None /\ Q.filter.search = None) =>
        /\ \A i \in 1..Len(Q.ring) :
              LET e == Q.ring[i]
                  A == ClaimApplicable(e, Q.filter)
              IN  /\ A # {} =>
                       /\ Cardinality({ k \in A : \A k2 \in A : Len(k2) <= Len(k) }) = 1
                       /\ InLogs(e, Q.response.logs) <=>
                            ClaimLevelNum(e.level) >=
                                ClaimLevelNum(ClaimLevelOf(Q.filter, ClaimLongest(A)))
                  /\ (A = {} /\ Q.filter.global_level = None) =>
                       InLogs(e, Q.response.logs)
        /\ \A order \in iteration_orders(DOMAIN Q.request.target_levels) :
              get_logs(Q.ring, Q.request, order) = Q.response

\* C5 witness: target_levels {a: WARN, a::x: ERROR}; INFO on a::x::y is
\* dropped, WARN on a::o passes, DEBUG on ab is not governed by key a.
C5_Witness ==
    /\ Answered /\ FullPage
    /\ Q.request.global_level = None
    /\ ClaimKeys(Q.filter) = {T_a, T_a_x}
    /\ ClaimLevelOf(Q.filter, T_a) = WARN
    /\ ClaimLevelOf(Q.filter, T_a_x) = ERROR
    /\ \E i, j, k \in 1..Len(Q.ring) :
          /\ Q.ring[i].target = T_a_x_y /\ Q.ring[i].level = INFO
          /\ ~InLogs(Q.ring[i], Q.response.logs)
          /\ Q.ring[j].target = T_a_o /\ Q.ring[j].level = WARN
          /\ InLogs(Q.ring[j], Q.response.logs)
          /\ Q.ring[k].target = T_ab /\ Q.ring[k].level = DEBUG
          /\ InLogs(Q.ring[k], Q.response.logs)

\* C6: with search = s set, an event is returned iff its message contains s,
\* letters compared without regard to case on either side.
C6_SearchCaseInsensitive ==
    (Answered /\ FullPage /\ Q.filter.search # None /\ Q.filter.target = None
       /\ Q.filter.global_level = None /\ Q.filter.target_levels = <<>>) =>
        \A i \in 1..Len(Q.ring) :
            InLogs(Q.ring[i], Q.response.logs) <=>
                ClaimContainsCI(Q.ring[i].message, Q.filter.search[1])

\* C6 witness: search "WO" returns "hi wo" and "BYE WO" and leaves out "test".
C6_Witness ==
    /\ Answered /\ FullPage
    /\ Q.filter.search = Some(<<"W","O">>) /\ Q.filter.target = None
    /\ Q.filter.global_level = None
    /\ \E i, j, k \in 1..Len(Q.ring) :
          /\ Q.ring[i].message = <<"h","i"," ","w","o">>
          /\ InLogs(Q.ring[i], Q.response.logs)
          /\ Q.ring[j].message = <<"B","Y","E"," ","W","O">>
          /\ InLogs(Q.ring[j], Q.response.logs)
          /\ Q.ring[k].message = <<"t","e","s","t">>
          /\ ~InLogs(Q.ring[k], Q.response.logs)

\* C7: an event is returned iff it passes the level gate AND the target
\* filter is unset or matches AND the search is unset or matches.
C7_FiltersCombineByAnd ==
    Answered =>
        /\ Q.response.total =
             Cardinality(Positions(Q.ring, LAMBDA e : ClaimMatches(e, Q.filter)))
        /\ FullPage =>
             \A i \in 1..Len(Q.ring) :
                 InLogs(Q.ring[i], Q.response.logs) <=>
                     /\ ClaimLevelGate(Q.ring[i], Q.filter)
                     /\ ClaimTargetOK(Q.ring[i], Q.filter)
                     /\ ClaimSearchOK(Q.ring[i], Q.filter)

\* C7 witness: level, target and search are all set; one event passes all
\* three and another is excluded although it passes two of them.
C7_Witness ==
    /\ Answered /\ FullPage
    /\ Q.filter.global_level # None /\ Q.filter.target # None /\ Q.filter.search # None
    /\ \E i, j \in 1..Len(Q.ring) :
          /\ InLogs(Q.ring[i], Q.response.logs)
          /\ ~InLogs(Q.ring[j], Q.response.logs)
          /\ ClaimTargetOK(Q.ring[j], Q.filter)
          /\ ClaimSearchOK(Q.ring[j], Q.filter)
          /\ ~ClaimLevelGate(Q.ring[j], Q.filter)


\* The request with its blank search and target taken out.
Unblanked(request) ==
    [request EXCEPT !.search = IF @ = Some(<<>>) THEN None ELSE @,
                    !.target = IF @ = Some(<<>>) THEN None ELSE @]

\* C8: a request whose search (or target) is the empty string is answered 200
\* with the response of the same request with that field absent: the blank
\* field selects nothing.
C8_BlankIsUnset ==
    (Answered /\ (Q.request.search = Some(<<>>) \/ Q.request.target = Some(<<>>))) =>
        LET without == Unblanked(Q.request)
            M == Positions(Q.ring, LAMBDA e :
                     /\ ClaimLevelGate(e, Q.filter)
                     /\ without.target = None \/ ClaimContainsCI(e.target, without.target[1])
                     /\ without.search = None \/ ClaimContainsCI(e.message, without.search[1]))
        IN  /\ Q.response.status = 200
            /\ Q.response.total = Cardinality(M)
            /\ FullPage =>
                 \A i \in 1..Len(Q.ring) :
                     InLogs(Q.ring[i], Q.response.logs) <=> i \in M
            /\ \A order \in iteration_orders(DOMAIN without.target_levels) :
                 Q.response = get_logs(Q.ring, without, order)

\* C8 witness: search is "" and target is "::X"; the response holds the event
\* of target a::x and not the one of target ab.
C8_Witness ==
    /\ Answered /\ FullPage
    /\ Q.request.search = Some(<<>>)
    /\ Q.request.target = Some(<<":",":","X">>)
    /\ Q.request.global_level = None
    /\ Q.response.status = 200
    /\ \E i, j \in 1..Len(Q.ring) :
          /\ Q.ring[i].target = T_a_x /\ InLogs(Q.ring[i], Q.response.logs)
          /\ Q.ring[j].target = T_ab /\ ~InLogs(Q.ring[j], Q.response.logs)

\* C9: limit = 0 returns empty logs and total = the full filtered count; an
\* offset >= total returns empty logs and the same total.
C9_PaginationBoundaries ==
    Answered =>
        LET count == Cardinality(Positions(Q.ring, LAMBDA e : ClaimMatches(e, Q.filter)))
        IN  /\ Q.request.limit = Some(0) =>
                 (Q.response.logs = <<>> /\ Q.response.total = count)
            /\ Q.request.offset >= count =>
                 (Q.response.logs = <<>> /\ Q.response.total = count)

\* C9 witness: limit 0 at offset 0 on a ring where two events satisfy the
\* filter.
C9_Witness ==
    /\ Answered
    /\ Q.request.limit = Some(0)
    /\ Q.request.offset = 0
    /\ Q.response.total >= 2
    /\ Q.response.logs = <<>>

\* C10: sort_order absent or other than "oldest_first" returns the logs
\* newest first, "oldest_first" returns them in push order, and the page is
\* cut out of the ordered list: entry k is the (offset + k)-th satisfying event
\* in that order.
C10_SortOrder ==
    Answered =>
        LET M == Positions(Q.ring, LAMBDA e : ClaimMatches(e, Q.filter))
            logs == Q.response.logs
            oldest == Q.request.sort_order = Some("oldest_first")
        IN  /\ \A k \in 1..Len(logs) :
                 /\ Q.request.offset + k <= Cardinality(M)
                 /\ logs[k] = Q.ring[IF oldest
                                     THEN NthOldest(M, Q.request.offset + k)
                                     ELSE NthNewest(M, Q.request.offset + k)]
            /\ \A k \in 1..(Len(logs) - 1) :
                 IF oldest
                 THEN logs[k].timestamp < logs[k + 1].timestamp
                 ELSE logs[k].timestamp > logs[k + 1].timestamp

\* C10 witness: sort_order "OLDEST_FIRST" is no known value; the page at
\* offset 1 starts at the second newest event and runs towards the oldest.
C10_Witness ==
    /\ Answered
    /\ Q.request.sort_order = Some("OLDEST_FIRST")
    /\ Q.request.offset = 1
    /\ Len(Q.ring) = 3
    /\ Len(Q.response.logs) = 2
    /\ Q.response.logs[1] = Q.ring[2]
    /\ Q.response.logs[2] = Q.ring[1]


(***************************************************************************)
(* The live bus: the tokio broadcast channel behind LogStorage::tx.        *)
(***************************************************************************)

\* usize::next_power_of_two, counted up from `p`.
RECURSIVE power_of_two_from(_, _)
power_of_two_from(n, p) == IF p >= n THEN p ELSE power_of_two_from(n, 2 * p)

next_power_of_two(n) == power_of_two_from(n, 1)

buffer_len_as_asked(t) == t.capacity

buffer_len_rounded_down(t) == next_power_of_two(t.capacity) \div 2

\* The slots of the channel: broadcast::channel rounds the capacity it is
\* given up to a power of two.
buffer_len(t) == next_power_of_two(t.capacity)

\* tail.pos: the values the channel has taken so far.
tail_pos(t) == Len(t.sent)

subscribe_from_backlog(t) ==
    IF tail_pos(t) > buffer_len(t) THEN tail_pos(t) - buffer_len(t) ELSE 0

\* Sender::subscribe: the cursor of the new receiver is the tail.
subscribe(t) == tail_pos(t)

recv_keeps_cursor(t, next) ==
    IF tail_pos(t) - next > buffer_len(t)
    THEN [result |-> [ok |-> FALSE, value |-> None,
                      missed |-> (tail_pos(t) - buffer_len(t)) - next],
          next |-> tail_pos(t) - buffer_len(t)]
    ELSE [result |-> [ok |-> TRUE, value |-> t.sent[next + 1], missed |-> 0],
          next |-> next]

recv_newest(t, next) ==
    [result |-> [ok |-> TRUE, value |-> t.sent[tail_pos(t)], missed |-> 0],
     next |-> tail_pos(t)]

recv_lag_counts_backlog(t, next) ==
    IF tail_pos(t) - next > buffer_len(t)
    THEN [result |-> [ok |-> FALSE, value |-> None, missed |-> tail_pos(t) - next],
          next |-> tail_pos(t) - buffer_len(t)]
    ELSE [result |-> [ok |-> TRUE, value |-> t.sent[next + 1], missed |-> 0],
          next |-> next + 1]

\* Receiver::recv with a value to return (next # tail): Err(Lagged(missed)) and
\* the cursor moved to the oldest value kept when the slot of `next` has been
\* written over, else Ok(value of `next`) and the cursor moved by one.
recv(t, next) ==
    IF tail_pos(t) - next > buffer_len(t)
    THEN [result |-> [ok |-> FALSE, value |-> None,
                      missed |-> (tail_pos(t) - buffer_len(t)) - next],
          next |-> tail_pos(t) - buffer_len(t)]
    ELSE [result |-> [ok |-> TRUE, value |-> t.sent[next + 1], missed |-> 0],
          next |-> next + 1]

send_waits_for_receivers(t, receivers) ==
    \A r \in DOMAIN receivers : receivers[r].live => receivers[r].next = tail_pos(t)

\* Sender::send returns at once, whatever the receivers have read.
send_ready(t, receivers) == TRUE

\* LogStorage::subscribe by receiver r. `start` remembers how many values the
\* channel had taken when r subscribed.
Subscribe(r) ==
    /\ ~rx[r].live
    /\ \A q \in Receivers : q < r => rx[q].live
    /\ rx' = [rx EXCEPT ![r] = [live |-> TRUE, next |-> subscribe(tx),
                                start |-> tail_pos(tx), got |-> <<>>]]
    /\ tx' = [tx EXCEPT !.rx_cnt = @ + 1]
    /\ UNCHANGED <<max_events, events, pushed, last, lock, prod, reader, pager, hook, spans, ws, rust_log, process>>

\* rx.recv() by receiver r, when the channel holds a value for it; `got` keeps
\* what recv returned.
Recv(r) ==
    /\ rx[r].live
    /\ rx[r].next # tail_pos(tx)
    /\ LET out == recv(tx, rx[r].next) IN
       rx' = [rx EXCEPT ![r].next = out.next, ![r].got = Append(@, out.result)]
    /\ UNCHANGED <<store, lock, prod, reader, pager, hook, spans, ws, rust_log, process>>

(***************************************************************************)
(* The RwLock around the ring, and LogStorage::push and get_logs one step  *)
(* at a time.                                                              *)
(***************************************************************************)

READER == 1

can_write_unguarded(l) == TRUE

\* RwLock::write returns when no thread holds the lock.
can_write(l) == l.writer = 0 /\ l.readers = {}

can_read_unguarded(l) == TRUE

\* RwLock::read returns when no thread holds the write lock.
can_read(l) == l.writer = 0

\* The pushes called so far: those appended and those yet to append.
calls == Len(pushed) + Cardinality({p \in Producers : prod[p].pc \notin {"idle", "unlock"}})

\* A thread calls LogStorage::push with the event the hook built; the events of
\* this specification differ by their timestamp only.
Call(p) ==
    /\ prod[p].pc = "idle"
    /\ calls < MaxBusPush
    /\ prod' = [prod EXCEPT ![p] =
                   [pc |-> "write",
                    event |-> Some([timestamp |-> calls + 1, level |-> INFO,
                                    target |-> T_a, message |-> <<"m">>])]]
    /\ UNCHANGED <<store, rx, lock, reader, pager, hook, spans, ws, rust_log, process>>

\* let mut events = self.events.write();
AcquireWrite(p) ==
    /\ prod[p].pc = "write"
    /\ can_write(lock)
    /\ lock' = [lock EXCEPT !.writer = p]
    /\ prod' = [prod EXCEPT ![p].pc = "evict"]
    /\ UNCHANGED <<store, rx, reader, pager, hook, spans, ws, rust_log, process>>

\* if events.len() >= self.max_events { events.pop_front(); }
Evict(p) ==
    /\ prod[p].pc = "evict"
    /\ events' = IF Len(events) >= max_events THEN pop_front(events) ELSE events
    /\ prod' = [prod EXCEPT ![p].pc = "send"]
    /\ UNCHANGED <<max_events, tx, pushed, last, rx, lock, reader, pager, hook, spans, ws, rust_log, process>>

\* let _ = self.tx.send(event.clone());
Publish(p) ==
    /\ prod[p].pc = "send"
    /\ send_ready(tx, rx)
    /\ tx' = send(tx, unwrap(prod[p].event))
    /\ prod' = [prod EXCEPT ![p].pc = "push_back"]
    /\ UNCHANGED <<max_events, events, pushed, last, rx, lock, reader, pager, hook, spans, ws, rust_log, process>>

\* events.push_back(event);
PushBack(p) ==
    /\ prod[p].pc = "push_back"
    /\ events' = Append(events, unwrap(prod[p].event))
    /\ pushed' = Append(pushed, unwrap(prod[p].event))
    /\ prod' = [prod EXCEPT ![p].pc = "unlock"]
    /\ UNCHANGED <<max_events, tx, last, rx, lock, reader, pager, hook, spans, ws, rust_log, process>>

\* push returns: the write guard is dropped.
ReleaseWrite(p) ==
    /\ prod[p].pc = "unlock"
    /\ lock' = [lock EXCEPT !.writer = IF @ = p THEN 0 ELSE @]
    /\ prod' = [prod EXCEPT ![p] = [pc |-> "idle", event |-> None]]
    /\ UNCHANGED <<store, rx, reader, pager, hook, spans, ws, rust_log, process>>

\* get_logs calls get_filtered: let events = self.events.read();
AcquireRead ==
    /\ reader.pc = "idle"
    /\ can_read(lock)
    /\ lock' = [lock EXCEPT !.readers = @ \cup {READER}]
    /\ reader' = [reader EXCEPT !.pc = "read"]
    /\ UNCHANGED <<store, rx, prod, pager, hook, spans, ws, rust_log, process>>

\* get_filtered filters, counts and pages the ring it holds the read lock of.
ReadRing ==
    /\ reader.pc = "read"
    /\ reader' = [pc |-> "release",
                  result |-> Some(get_logs(events, DefaultRequest, <<>>))]
    /\ UNCHANGED <<store, rx, lock, prod, pager, hook, spans, ws, rust_log, process>>

read_guard_kept(l, t) == l

\* The read guard `events` goes out of scope at the end of get_filtered.
drop_read_guard(l, t) == [l EXCEPT !.readers = @ \ {t}]

\* get_filtered returns: the read guard is dropped.
ReleaseRead ==
    /\ reader.pc = "release"
    /\ lock' = drop_read_guard(lock, READER)
    /\ reader' = [reader EXCEPT !.pc = "serialize"]
    /\ UNCHANGED <<store, rx, prod, pager, hook, spans, ws, rust_log, process>>

\* Json(LogsResponse { .. }).into_response()
Serialize ==
    /\ reader.pc = "serialize"
    /\ reader' = [pc |-> "idle", result |-> None]
    /\ UNCHANGED <<store, rx, lock, prod, pager, hook, spans, ws, rust_log, process>>

InitBus ==
    /\ max_events \in 1..(MaxBusPush - 1)
    /\ events = <<>>
    /\ tx = [capacity |-> BROADCAST_CAPACITY, rx_cnt |-> 0, sent |-> <<>>]
    /\ pushed = <<>>
    /\ last = None
    /\ Quiet

Pushing ==
    \E p \in Producers :
        \/ Call(p)
        \/ AcquireWrite(p)
        \/ Evict(p)
        \/ Publish(p)
        \/ PushBack(p)
        \/ ReleaseWrite(p)

\* Racing producers and the receivers of the live bus.
NextBus ==
    \/ Pushing
    \/ \E r \in Receivers : Subscribe(r) \/ Recv(r)

SpecBus == InitBus /\ [][NextBus]_vars

\* Racing producers and a get_logs query.
NextRead ==
    \/ Pushing
    \/ AcquireRead
    \/ ReadRing
    \/ ReleaseRead
    \/ Serialize

SpecRead == InitBus /\ [][NextRead]_vars

(***************************************************************************)
(* Claims about the live bus and the lock.                                 *)
(***************************************************************************)

IsPrefix(s, t) == Len(s) <= Len(t) /\ SubSeq(t, 1, Len(s)) = s

Max(a, b) == IF a >= b THEN a ELSE b

\* The place of event e among the values the channel took, 0 when absent.
PublishedAt(e) ==
    IF \E i \in 1..Len(tx.sent) : tx.sent[i] = e
    THEN CHOOSE i \in 1..Len(tx.sent) : tx.sent[i] = e
    ELSE 0

\* What recv returned to receiver r, and the events among it.
NeverLagged(r) == \A i \in 1..Len(rx[r].got) : rx[r].got[i].ok

Deliveries(r) == SelectSeq(rx[r].got, LAMBDA g : g.ok)

Received(r) == [i \in 1..Len(Deliveries(r)) |-> Deliveries(r)[i].value]

\* The events r received that were published after `since` values.
ReceivedSince(r, since) == SelectSeq(Received(r), LAMBDA e : PublishedAt(e) > since)

PublishedSince(since) == SubSeq(tx.sent, since + 1, Len(tx.sent))

\* C11: two subscribers that never lagged received, of the events published
\* after both had subscribed, the same sequence as far as each has read, and that
\* sequence is the events in the order the channel took them.
C11_SameSequenceForAll ==
    \A a \in Receivers : \A b \in Receivers :
        (rx[a].live /\ rx[b].live /\ NeverLagged(a) /\ NeverLagged(b)) =>
            LET since == Max(rx[a].start, rx[b].start)
                A == ReceivedSince(a, since)
                B == ReceivedSince(b, since)
            IN  /\ IsPrefix(A, B) \/ IsPrefix(B, A)
                /\ IsPrefix(A, PublishedSince(since))

C11_Witness ==
    /\ rx[1].live /\ rx[2].live
    /\ rx[2].start >= 1
    /\ Len(ReceivedSince(1, rx[2].start)) >= 2
    /\ Len(ReceivedSince(2, rx[2].start)) >= 2
    /\ Len(Received(1)) > Len(Received(2))

\* The place of event e in sequence q, 0 when absent.
PlaceIn(q, e) ==
    IF \E i \in 1..Len(q) : q[i] = e THEN CHOOSE i \in 1..Len(q) : q[i] = e ELSE 0

SameOrder(q1, q2) ==
    \A i \in 1..Len(q1) : \A j \in 1..Len(q1) :
        (i < j /\ PlaceIn(q2, q1[i]) > 0 /\ PlaceIn(q2, q1[j]) > 0) =>
            PlaceIn(q2, q1[i]) < PlaceIn(q2, q1[j])

\* C12: with producers racing, any two events of the ring stand in the ring
\* (oldest to newest) in the order in which every subscriber received them,
\* which is the order the channel took them.
C12_RingOrderIsBusOrder ==
    /\ SameOrder(events, tx.sent)
    /\ \A r \in Receivers : SameOrder(events, Received(r))

C12_Witness ==
    /\ Len(events) >= 2
    /\ events[1].timestamp > events[2].timestamp
    /\ \E r \in Receivers :
          /\ PlaceIn(Received(r), events[1]) > 0
          /\ PlaceIn(Received(r), events[2]) > 0

\* C13: a push, once it holds the write lock, can take each of its steps
\* whatever the number of receivers and however far behind they are, and when
\* it is over the event is the newest of the ring; with no receiver the
\* publish is dropped and the event is in the ring all the same.
C13_PushNeverWaitsForReceivers ==
    /\ \A p \in Producers :
          /\ (prod[p].pc = "write" /\ can_write(lock)) => ENABLED AcquireWrite(p)
          /\ prod[p].pc = "evict" => ENABLED Evict(p)
          /\ prod[p].pc = "send" => ENABLED Publish(p)
          /\ prod[p].pc = "push_back" => ENABLED PushBack(p)
          /\ prod[p].pc = "unlock" => ENABLED ReleaseWrite(p)
    /\ (pushed # <<>> /\ lock.writer = 0) =>
          /\ events # <<>>
          /\ events[Len(events)] = pushed[Len(pushed)]

C13_Witness ==
    /\ \A p \in Producers : prod[p].pc = "idle"
    /\ Len(pushed) = MaxBusPush
    /\ rx[1].live /\ rx[1].got = <<>>
    /\ Len(tx.sent) >= 2
    /\ Len(tx.sent) < Len(pushed)
    /\ events[Len(events)] = pushed[Len(pushed)]

\* C14: a receiver is never handed an event the channel took before it
\* subscribed, though the channel and the ring still keep it: the first event
\* it receives is the first one published after its subscribe call.
C14_SubscribeStartsAtTail ==
    \A r \in Receivers :
        (rx[r].live /\ rx[r].got # <<>>) =>
            /\ rx[r].got[1].ok
            /\ Len(tx.sent) > rx[r].start
            /\ rx[r].got[1].value = tx.sent[rx[r].start + 1]
            /\ \A i \in 1..Len(Received(r)) : PublishedAt(Received(r)[i]) > rx[r].start

C14_Witness ==
    /\ rx[2].live
    /\ rx[2].start >= 1
    /\ rx[2].got # <<>>
    /\ PlaceIn(events, tx.sent[rx[2].start]) > 0
    /\ PlaceIn(Received(1), tx.sent[rx[2].start]) > 0

(***************************************************************************)
(* A burst of pushes longer than the channel, with two connected           *)
(* receivers: one reads whenever it likes, the other is a slow connection  *)
(* that gets to read only when the burst is over.                          *)
(***************************************************************************)

MaxBurst == 130

FAST == 1
SLOW == 2

\* The slow connection's task is held up until the burst is over, and drains
\* then.
RecvSlow ==
    /\ Len(pushed) = MaxBurst
    /\ Recv(SLOW)

\* One producer calls LogStorage::push; the events differ by timestamp only.
PushBurst ==
    /\ Len(pushed) < MaxBurst
    /\ LET event == [timestamp |-> Len(pushed) + 1, level |-> INFO,
                     target |-> T_a, message |-> <<"m">>]
       IN  /\ events' = push(events, max_events, event)
           /\ tx' = send(tx, event)
           /\ pushed' = Append(pushed, event)
    /\ UNCHANGED <<max_events, last, conc>>

\* Two WebSocket connections are open, and nothing was pushed since.
InitLag ==
    /\ max_events = 1
    /\ events = <<>>
    /\ tx = [capacity |-> BROADCAST_CAPACITY, rx_cnt |-> 2, sent |-> <<>>]
    /\ pushed = <<>>
    /\ last = None
    /\ rx = [r \in Receivers |->
                [live |-> r \in {FAST, SLOW}, next |-> 0, start |-> 0, got |-> <<>>]]
    /\ lock = [writer |-> 0, readers |-> {}]
    /\ prod = [p \in Producers |-> [pc |-> "idle", event |-> None]]
    /\ reader = [pc |-> "idle", result |-> None]
    /\ pager = <<>>
    /\ hook = <<>>
    /\ spans = <<>>
    /\ ws = [c \in Receivers |-> NoConnection]
    /\ rust_log = UNSET
    /\ process = NoLayers

NextLag ==
    \/ PushBurst
    \/ Recv(FAST)
    \/ RecvSlow

SpecLag == InitLag /\ [][NextLag]_vars

\* How far receiver r is behind the channel.
Behind(r) == tail_pos(tx) - rx[r].next

\* The values the channel really keeps: the capacity asked for, rounded up.
KeptBacklog == next_power_of_two(BROADCAST_CAPACITY)

RECURSIVE SumMissed(_)
SumMissed(lags) ==
    IF lags = <<>> THEN 0 ELSE Head(lags).missed + SumMissed(Tail(lags))

Lags(r) == SelectSeq(rx[r].got, LAMBDA g : ~g.ok)

\* The cursor of r is where its subscribe put it, moved by one for each event
\* received and by n for each Lagged(n); what the last recv returned is the
\* event the cursor has just passed, or a gap of at least one; the events
\* received since the last Lagged are the ones published up to the cursor,
\* in publish order.
GapsAccounted(r) ==
    /\ rx[r].next = rx[r].start + Len(Deliveries(r)) + SumMissed(Lags(r))
    /\ rx[r].got # <<>> =>
          LET g == rx[r].got[Len(rx[r].got)]
          IN  IF g.ok
              THEN g.missed = 0 /\ g.value = tx.sent[rx[r].next]
              ELSE g.missed >= 1 /\ g.value = None
    /\ LET lagged == {i \in 1..Len(rx[r].got) : ~rx[r].got[i].ok}
           k == IF lagged = {} THEN 0
                ELSE CHOOSE i \in lagged : \A j \in lagged : j <= i
           since == SubSeq(rx[r].got, k + 1, Len(rx[r].got))
       IN  [i \in 1..Len(since) |-> since[i].value]
               = SubSeq(tx.sent, rx[r].next - Len(since) + 1, rx[r].next)

\* C15 as stated: a receiver that is more than BROADCAST_CAPACITY values behind
\* gets Lagged from its next recv.
C15_LaggedBeyondBacklog ==
    \A r \in Receivers :
        (rx[r].live /\ Behind(r) > BROADCAST_CAPACITY) => ~recv(tx, rx[r].next).result.ok

\* C15, amended: a receiver that is more than the kept backlog (the capacity
\* rounded up to a power of two) behind gets Lagged(n) from its next recv, n
\* being the number of values between its cursor and the oldest one kept, and
\* its cursor moves there; a receiver that is behind by no more than that gets
\* the event at its cursor; the recvs after a Lagged return the following
\* events in publish order.
C15_LaggedBeyondKeptBacklog ==
    \A r \in Receivers :
        rx[r].live =>
            /\ Behind(r) > KeptBacklog =>
                  /\ ~recv(tx, rx[r].next).result.ok
                  /\ recv(tx, rx[r].next).result.missed = Behind(r) - KeptBacklog
                  /\ recv(tx, rx[r].next).next = rx[r].next + (Behind(r) - KeptBacklog)
            /\ (Behind(r) > 0 /\ Behind(r) <= KeptBacklog) =>
                  /\ recv(tx, rx[r].next).result.ok
                  /\ recv(tx, rx[r].next).result.value = tx.sent[rx[r].next + 1]
            /\ GapsAccounted(r)

C15_Witness ==
    /\ Len(rx[SLOW].got) >= 3
    /\ ~rx[SLOW].got[1].ok
    /\ rx[SLOW].got[1].missed = MaxBurst - KeptBacklog
    /\ rx[SLOW].got[2].ok
    /\ rx[SLOW].got[2].value = tx.sent[MaxBurst - KeptBacklog + 1]
    /\ rx[SLOW].got[3].value = tx.sent[MaxBurst - KeptBacklog + 2]

\* C16: a receiver that is no more than BROADCAST_CAPACITY values behind is
\* handed the event at its cursor by its next recv, so a receiver that stays
\* within that distance never lags; and a receiver that never lagged has
\* received every event published since it subscribed, up to its cursor, once
\* each and in publish order, whatever the other receivers missed.
C16_InBacklogReceivesAll ==
    \A r \in Receivers :
        rx[r].live =>
            /\ (Behind(r) > 0 /\ Behind(r) <= BROADCAST_CAPACITY) =>
                  /\ recv(tx, rx[r].next).result.ok
                  /\ recv(tx, rx[r].next).result.value = tx.sent[rx[r].next + 1]
                  /\ recv(tx, rx[r].next).next = rx[r].next + 1
            /\ NeverLagged(r) =>
                  Received(r) = SubSeq(tx.sent, rx[r].start + 1, rx[r].next)

C16_Witness ==
    /\ Len(Received(FAST)) = MaxBurst
    /\ NeverLagged(FAST)
    /\ ~NeverLagged(SLOW)
    /\ Len(Received(SLOW)) >= 1

(***************************************************************************)
(* Claims about the lock of the ring.                                      *)
(***************************************************************************)

\* C17 as stated: the thread that is about to publish on the channel does not
\* hold the write lock of the ring.
C17_PublishOutsideWriteLock ==
    \A p \in Producers : prod[p].pc = "send" => lock.writer # p

\* C17, amended: push holds the write lock of the ring from before its
\* eviction test until it has appended, so also when it publishes on the
\* channel; the thread answering a query holds no lock of the ring when it
\* serializes the response.
C17_PublishUnderWriteLock ==
    /\ \A p \in Producers :
          prod[p].pc \in {"evict", "send", "push_back", "unlock"} => lock.writer = p
    /\ reader.pc = "serialize" => READER \notin lock.readers
    /\ reader.pc \in {"read", "release"} <=> READER \in lock.readers

C17_Witness ==
    /\ \E p \in Producers : prod[p].pc = "send" /\ lock.writer = p
    /\ reader.pc = "serialize"
    /\ lock.readers = {}

\* The ring as it stands when n pushes are over (capacity at least 1): the
\* last min(n, max_events) of them, oldest first.
RingAfter(n) == SubSeq(pushed, n - Min(n, max_events) + 1, n)

\* C18: what a query returns was computed from the ring as it stood when some
\* number of pushes were over, a contiguous run of the push order, never from
\* a ring one push has evicted from and not yet appended to.
C18_QuerySeesWholePushes ==
    reader.result # None =>
        \E n \in 0..Len(pushed) :
            /\ unwrap(reader.result).logs = rev(RingAfter(n))
            /\ unwrap(reader.result).total = Min(n, max_events)

C18_Witness ==
    /\ max_events = 2
    /\ reader.pc = "serialize"
    /\ unwrap(reader.result).total = 2
    /\ \E p \in Producers : prod[p].pc = "push_back"
    /\ Len(events) = 1

(***************************************************************************)
(* A client that fetches page after page from get_logs while events are    *)
(* pushed.                                                                 *)
(***************************************************************************)

MaxPages == 3

OLDEST == <<"o","l","d","e","s","t","_","f","i","r","s","t">>

PageRequest(limit, sort_order, offset) ==
    [DefaultRequest EXCEPT !.limit = Some(limit), !.sort_order = sort_order,
                           !.offset = offset]

\* get_logs answers the request for the next page: the first page fixes the
\* page size and the order, every later request has the same ones and the
\* offset after the pages fetched. `ring` keeps the ring the page was cut from.
NextPage ==
    /\ Len(pager) < MaxPages
    /\ \E limit \in 1..MaxLimit : \E sort_order \in {None, Some(OLDEST)} :
          /\ pager # <<>> => /\ pager[1].request.limit = Some(limit)
                             /\ pager[1].request.sort_order = sort_order
          /\ LET request == PageRequest(limit, sort_order, Len(pager) * limit)
             IN  pager' = Append(pager, [request |-> request, ring |-> events,
                                         response |-> get_logs(events, request, <<>>)])
    /\ UNCHANGED <<store, rx, lock, prod, reader, hook, spans, ws, rust_log, process>>

NextPaging == Push \/ NextPage

SpecPaging == Init /\ [][NextPaging]_vars

\* The events of the pages fetched, in the order the client got them.
RECURSIVE Fetched(_)
Fetched(n) == IF n = 0 THEN <<>> ELSE Fetched(n - 1) \o pager[n].response.logs

NewestFirstPages == pager # <<>> /\ pager[1].request.sort_order = None

\* Event a stands before event b in the order the client asked for.
Before(a, b) ==
    IF NewestFirstPages THEN a.timestamp > b.timestamp ELSE a.timestamp < b.timestamp

\* C19: the pages a client fetched one after the other, with pushes in
\* between, hold no event twice, and when a page holds an event, every event
\* that was in the ring at the first query, is still retained and stands before
\* it in the order asked for has been fetched as well.
C19_StablePages ==
    LET all == Fetched(Len(pager)) IN
    /\ \A i \in 1..Len(all) : \A j \in 1..Len(all) : i # j => all[i] # all[j]
    /\ \A i \in 1..Len(all) : \A k \in 1..Len(events) :
          (PlaceIn(pager[1].ring, events[k]) > 0 /\ Before(events[k], all[i])) =>
              PlaceIn(all, events[k]) > 0

(***************************************************************************)
(* The capture hook: LogCaptureLayer::on_event.                            *)
(***************************************************************************)

MaxHook == 3

FILTERED_TARGETS ==
    << <<"l","o","g">>,
       <<"t","r","a","c","i","n","g","_","s","u","b","s","c","r","i","b","e","r","_","a","x","u","m">>,
       <<"t","u","n","g","s","t","e","n","i","t","e">>,
       <<"t","o","k","i","o","_","t","u","n","g","s","t","e","n","i","t","e">> >>

is_filtered_plain_prefix(actual_target) ==
    \E i \in 1..Len(FILTERED_TARGETS) :
        \/ actual_target = FILTERED_TARGETS[i]
        \/ starts_with(actual_target, FILTERED_TARGETS[i])

\* The loop of on_event over FILTERED_TARGETS: TRUE when it returns early.
is_filtered(actual_target) ==
    \E i \in 1..Len(FILTERED_TARGETS) :
        \/ actual_target = FILTERED_TARGETS[i]
        \/ starts_with(actual_target, FILTERED_TARGETS[i] \o SEP)

(* Names of fields, as strings. *)
F_message == <<"m","e","s","s","a","g","e">>
F_log_target == <<"l","o","g",".","t","a","r","g","e","t">>
F_log_module_path == <<"l","o","g",".","m","o","d","u","l","e","_","p","a","t","h">>
F_log_file == <<"l","o","g",".","f","i","l","e">>
F_log_line == <<"l","o","g",".","l","i","n","e">>
F_k == <<"k">>
F_n == <<"n">>

\* The values an event or a span can record: a string, what format_args!
\* makes (recorded through record_debug), an unsigned or signed integer, a bool.
Str(v) == [kind |-> "str", v |-> v]
Args(v) == [kind |-> "args", v |-> v]
U64(n) == [kind |-> "u64", v |-> n]
I64(n) == [kind |-> "i64", v |-> n]
Bool(b) == [kind |-> "bool", v |-> b]

Digit(d) == <<"0","1","2","3","4","5","6","7","8","9">>[d + 1]

\* u64::to_string
RECURSIVE decimal(_)
decimal(n) == IF n < 10 THEN <<Digit(n)>> ELSE decimal(n \div 10) \o <<Digit(n % 10)>>

\* FieldVisitor::record_debug, record_str, record_i64, record_u64, record_bool:
\* the string put in the map for a value.
record(value) ==
    CASE value.kind = "str" -> value.v
      [] value.kind = "args" -> value.v
      [] value.kind = "u64" -> decimal(value.v)
      [] value.kind = "i64" -> IF value.v < 0 THEN <<"-">> \o decimal(0 - value.v)
                                              ELSE decimal(value.v)
      [] value.kind = "bool" -> IF value.v THEN <<"t","r","u","e">>
                                           ELSE <<"f","a","l","s","e">>

\* event.record(&mut visitor): the HashMap the visitor has filled.
visit(fields) == [name \in DOMAIN fields |-> record(fields[name])]

actual_target_of_metadata(raw) == raw.target

\* visitor.fields.get("log.target").cloned().unwrap_or_else(|| target.to_string())
actual_target_of(raw) ==
    IF F_log_target \in DOMAIN visit(raw.fields)
    THEN visit(raw.fields)[F_log_target]
    ELSE raw.target

\* [String]::join
RECURSIVE join(_, _)
join(parts, sep) ==
    IF parts = <<>> THEN <<>>
    ELSE IF Len(parts) = 1 THEN parts[1]
    ELSE parts[1] \o sep \o join(Tail(parts), sep)

extract_message_of_kept_fields(raw, order) ==
    IF F_message \in DOMAIN visit(raw.fields) THEN visit(raw.fields)[F_message]
    ELSE LET kept == SelectSeq(order, LAMBDA k : k \notin {F_log_target, F_log_module_path,
                                                          F_log_file, F_log_line})
         IN  join([i \in 1..Len(kept) |-> kept[i] \o <<":", " ">> \o visit(raw.fields)[kept[i]]],
                  <<",", " ">>)

\* extract_message: the message field, else every field as "k: v", joined by
\* ", " in the order the HashMap iterates.
extract_message(raw, order) ==
    IF F_message \in DOMAIN visit(raw.fields) THEN visit(raw.fields)[F_message]
    ELSE join([i \in 1..Len(order) |-> order[i] \o <<":", " ">> \o visit(raw.fields)[order[i]]],
              <<",", " ">>)

scrub_message_only(fields) == [name \in DOMAIN fields \ {F_message} |-> fields[name]]

\* visitor.fields.remove(..) of on_event, five times.
scrub(fields) ==
    [name \in DOMAIN fields \ {F_message, F_log_target, F_log_module_path,
                               F_log_file, F_log_line} |-> fields[name]]

level_to_string(level) ==
    CASE level = "Level::TRACE" -> TRACE
      [] level = "Level::DEBUG" -> DEBUG
      [] level = "Level::INFO" -> INFO
      [] level = "Level::WARN" -> WARN
      [] level = "Level::ERROR" -> ERROR

\* The parent of an event: the current span (the default), none, or the span
\* at a place of the stack.
Contextual == <<"current">>
Root == <<"root">>
Explicit(i) == <<"span", i>>

event_span_outermost(raw, stack) ==
    IF stack = <<>> THEN None ELSE Some(stack[1])

\* ctx.event_span(event): none for a root event, the current span for a
\* contextual one, the span named as parent otherwise.
event_span(raw, stack) ==
    IF raw.parent = Root THEN None
    ELSE IF raw.parent = Contextual
         THEN IF stack = <<>> THEN None ELSE Some(stack[Len(stack)])
         ELSE Some(stack[raw.parent[2]])

\* extract_span_info
extract_span_info(raw, stack) ==
    IF event_span(raw, stack) = None THEN None
    ELSE Some([name |-> unwrap(event_span(raw, stack)).name,
               fields |-> unwrap(event_span(raw, stack)).ext])

\* The events the host emits: metadata target and level, the fields recorded,
\* and the parent (the current span unless the emitter names one).
Raw(target, level, fields) ==
    [target |-> target, level |-> level, fields |-> fields, parent |-> Contextual]

NoFields == [name \in {} |-> Str(<<>>)]
OnlyMessage == F_message :> Args(<<"m">>)

RawPool ==
    { Raw(<<"a","p","p">>, "Level::INFO", OnlyMessage),
      Raw(<<"l","o","g","g","e","r">>, "Level::WARN", OnlyMessage @@ (F_k :> U64(12))),
      Raw(<<"l","o","g",":","x">>, "Level::DEBUG", NoFields),
      Raw(<<"l","o","g">>, "Level::INFO", OnlyMessage),
      Raw(<<"l","o","g",":",":","x">>, "Level::ERROR", OnlyMessage),
      Raw(<<"t","u","n","g","s","t","e","n","i","t","e",":",":","p">>, "Level::TRACE", NoFields),
      Raw(<<"l","o","g">>, "Level::INFO",
          OnlyMessage @@ (F_log_target :> Str(<<"a","p","p">>)) @@ (F_log_file :> Str(<<"f">>))
                      @@ (F_log_module_path :> Str(<<"a","p","p">>)) @@ (F_log_line :> U64(7))),
      Raw(<<"a","p","p">>, "Level::INFO",
          OnlyMessage @@ (F_log_target :> Str(<<"t","o","k","i","o","_","t","u","n","g","s","t","e","n","i","t","e",":",":","x">>))),
      Raw(<<"a","p","p">>, "Level::DEBUG", (F_k :> Bool(TRUE)) @@ (F_n :> I64(0 - 3))),
      Raw(<<"l","o","g">>, "Level::WARN",
          (F_log_target :> Str(<<"d","b">>)) @@ (F_k :> Bool(FALSE))),
      Raw(<<>>, "Level::INFO", OnlyMessage),
      Raw(<<"l","o","g">>, "Level::INFO", OnlyMessage @@ (F_log_target :> Str(<<>>))) }

\* on_event for the event `raw`, whose fields the visitor's map iterates in
\* `order`: the event is dropped when its actual target is filtered, and is
\* built and pushed otherwise. `hook` keeps the raw event, the spans it was
\* emitted inside and the event stored for it.
on_event(raw, order) ==
    IF is_filtered(actual_target_of(raw))
    THEN /\ hook' = Append(hook, [raw |-> raw, inside |-> spans, stored |-> None])
         /\ UNCHANGED <<events, tx, pushed>>
    ELSE LET log_event == [timestamp |-> Len(pushed) + 1,
                           level |-> level_to_string(raw.level),
                           target |-> actual_target_of(raw),
                           message |-> extract_message(raw, order),
                           fields |-> scrub(visit(raw.fields)),
                           span |-> extract_span_info(raw, spans)]
         IN  /\ hook' = Append(hook, [raw |-> raw, inside |-> spans,
                                      stored |-> Some(log_event)])
             /\ events' = push(events, max_events, log_event)
             /\ tx' = send(tx, log_event)
             /\ pushed' = Append(pushed, log_event)

\* The host emits an event outside any span.
OnEvent ==
    /\ Len(hook) < MaxHook
    /\ \E raw \in RawPool : \E order \in iteration_orders(DOMAIN raw.fields) :
          on_event(raw, order)
    /\ UNCHANGED <<max_events, last, rx, lock, prod, reader, pager, spans, ws, rust_log, process>>

\* One WebSocket connection is open, and nothing was captured since.
InitCapture ==
    /\ max_events \in {1, MaxCap}
    /\ events = <<>>
    /\ tx = [capacity |-> BROADCAST_CAPACITY, rx_cnt |-> 1, sent |-> <<>>]
    /\ pushed = <<>>
    /\ last = None
    /\ rx = [r \in Receivers |->
                [live |-> r = FAST, next |-> 0, start |-> 0, got |-> <<>>]]
    /\ lock = [writer |-> 0, readers |-> {}]
    /\ prod = [p \in Producers |-> [pc |-> "idle", event |-> None]]
    /\ reader = [pc |-> "idle", result |-> None]
    /\ pager = <<>>
    /\ hook = <<>>
    /\ spans = <<>>
    /\ ws = [c \in Receivers |-> NoConnection]
    /\ rust_log = UNSET
    /\ process = NoLayers

NextCapture == OnEvent \/ Recv(FAST)

SpecCapture == InitCapture /\ [][NextCapture]_vars

\* The deny list as the claim has it: equal to an entry, or an entry, then
\* "::", then anything.
ClaimDenied(t) ==
    \E i \in 1..Len(FILTERED_TARGETS) :
        LET d == FILTERED_TARGETS[i] IN
        \/ t = d
        \/ /\ Len(t) >= Len(d) + 2
           /\ \A k \in 1..Len(d) : t[k] = d[k]
           /\ t[Len(d) + 1] = ":" /\ t[Len(d) + 2] = ":"

\* The text of a recorded value, as a reader of the event sees it.
ClaimText(value) ==
    IF value.kind \in {"str", "args"} THEN value.v
    ELSE IF value.kind = "bool" THEN (IF value.v THEN <<"t","r","u","e">> ELSE <<"f","a","l","s","e">>)
    ELSE IF value.v = 12 THEN <<"1","2">>
    ELSE IF value.v = 7 THEN <<"7">>
    ELSE IF value.v = 0 - 3 THEN <<"-","3">>
    ELSE <<"?">>

ClaimResolved(raw) ==
    IF F_log_target \in DOMAIN raw.fields THEN ClaimText(raw.fields[F_log_target])
    ELSE raw.target

Targets(q) == [i \in 1..Len(q) |-> q[i].target]

Kept == SelectSeq(hook, LAMBDA h : ~ClaimDenied(ClaimResolved(h.raw)))

\* C20: of the events given to the hook, those whose resolved target is a
\* deny-list entry or begins with an entry followed by "::" reach neither the
\* ring nor the bus, and all the others, a target that only shares a prefix
\* with an entry among them, are pushed and published, in order.
C20_NoiseFilter ==
    /\ Targets(pushed) = [i \in 1..Len(Kept) |-> ClaimResolved(Kept[i].raw)]
    /\ tx.sent = pushed
    /\ \A i \in 1..Len(events) : ~ClaimDenied(events[i].target)
    /\ \A i \in 1..Len(Received(FAST)) : ~ClaimDenied(Received(FAST)[i].target)
    /\ Len(events) = Min(Len(Kept), max_events)

C20_Witness ==
    /\ max_events = MaxCap
    /\ Len(hook) = 3
    /\ F_log_target \in DOMAIN hook[1].raw.fields
    /\ hook[1].raw.fields[F_log_target] = Str(<<"t","o","k","i","o","_","t","u","n","g","s","t","e","n","i","t","e",":",":","x">>)
    /\ hook[2].raw.target = <<"l","o","g","g","e","r">>
    /\ hook[3].raw.target = <<"l","o","g",":",":","x">>
    /\ Targets(events) = << <<"l","o","g","g","e","r">> >>
    /\ Targets(Received(FAST)) = << <<"l","o","g","g","e","r">> >>

\* C22: the target of a stored event is the value of the raw event's
\* log.target field when it has one and the target the pipeline reports
\* otherwise, and it is this target that decides whether the event is dropped.
C22_TargetRewriting ==
    \A i \in 1..Len(hook) :
        /\ hook[i].stored = None <=> ClaimDenied(ClaimResolved(hook[i].raw))
        /\ hook[i].stored # None =>
              /\ F_log_target \in DOMAIN hook[i].raw.fields =>
                    unwrap(hook[i].stored).target = ClaimText(hook[i].raw.fields[F_log_target])
              /\ F_log_target \notin DOMAIN hook[i].raw.fields =>
                    unwrap(hook[i].stored).target = hook[i].raw.target

C22_Witness ==
    /\ Len(hook) = 3
    /\ hook[1].raw.target = <<"l","o","g">>
    /\ hook[1].stored # None
    /\ unwrap(hook[1].stored).target = <<"d","b">>
    /\ hook[2].raw.target = <<"a","p","p">>
    /\ hook[2].stored = None
    /\ hook[3].raw.target = <<"a","p","p">>
    /\ hook[3].stored # None
    /\ Targets(events) = << <<"d","b">>, <<"a","p","p">> >>

Reserved == {F_message, F_log_target, F_log_module_path, F_log_file, F_log_line}

HasNoReserved(q) == \A i \in 1..Len(q) : DOMAIN q[i].fields \cap Reserved = {}

\* C23: no event in the ring, on the bus or received from it has a field
\* named message, log.target, log.module_path, log.file or log.line, whatever
\* the raw event carried; its other fields are all there.
C23_FieldScrub ==
    /\ HasNoReserved(events)
    /\ HasNoReserved(tx.sent)
    /\ HasNoReserved(Received(FAST))
    /\ \A i \in 1..Len(hook) :
          hook[i].stored # None =>
              /\ DOMAIN unwrap(hook[i].stored).fields = DOMAIN hook[i].raw.fields \ Reserved
              /\ \A name \in DOMAIN unwrap(hook[i].stored).fields :
                    unwrap(hook[i].stored).fields[name] = ClaimText(hook[i].raw.fields[name])

C23_Witness ==
    /\ Len(hook) >= 2
    /\ Reserved \subseteq DOMAIN hook[1].raw.fields
    /\ hook[1].stored # None
    /\ F_k \in DOMAIN hook[2].raw.fields /\ F_log_target \in DOMAIN hook[2].raw.fields
    /\ hook[2].stored # None
    /\ Len(events) = 2
    /\ DOMAIN events[1].fields = {}
    /\ DOMAIN events[2].fields = {F_k}
    /\ Len(Received(FAST)) = 2

\* The fields of `raw` named in `order`, each as "k: v", with ", " between.
RECURSIVE ClaimJoined(_, _)
ClaimJoined(raw, order) ==
    IF order = <<>> THEN <<>>
    ELSE Head(order) \o <<":", " ">> \o ClaimText(raw.fields[Head(order)])
         \o (IF Tail(order) = <<>> THEN <<>> ELSE <<",", " ">> \o ClaimJoined(raw, Tail(order)))

\* C24: the message of a stored event is the raw event's message field when
\* it has one; otherwise it is all its fields as "k: v" joined by ", ", in
\* some order, which is the empty string when it has no field.
C24_MessageExtraction ==
    \A i \in 1..Len(hook) :
        hook[i].stored # None =>
            IF F_message \in DOMAIN hook[i].raw.fields
            THEN unwrap(hook[i].stored).message = ClaimText(hook[i].raw.fields[F_message])
            ELSE \E order \in iteration_orders(DOMAIN hook[i].raw.fields) :
                    unwrap(hook[i].stored).message = ClaimJoined(hook[i].raw, order)

C24_Witness ==
    /\ Len(hook) = 3
    /\ hook[1].stored # None
    /\ unwrap(hook[1].stored).message = <<"k",":"," ","f","a","l","s","e",","," ","l","o","g",".","t","a","r","g","e","t",":"," ","d","b">>
    /\ hook[2].stored # None
    /\ hook[2].raw.fields = NoFields
    /\ unwrap(hook[2].stored).message = <<>>
    /\ hook[3].stored # None
    /\ unwrap(hook[3].stored).message = <<"n",":"," ","-","3",","," ","k",":"," ","t","r","u","e">>

\* C25: every event the hook stores has a target that is not empty and a
\* level that is one of TRACE, DEBUG, INFO, WARN, ERROR.
C25_EventInvariant ==
    \A i \in 1..Len(pushed) :
        /\ pushed[i].target # <<>>
        /\ pushed[i].level \in {TRACE, DEBUG, INFO, WARN, ERROR}

(***************************************************************************)
(* Spans: on_new_span, and events emitted inside spans.                    *)
(***************************************************************************)

MaxSpanEvents == 2

\* The spans of the emitting code, outermost first: a request span created
\* with one field, and inside it a span created with none.
Nesting ==
    << [name |-> <<"r","e","q">>, attrs |-> F_k :> U64(12)],
       [name |-> <<"d","b">>, attrs |-> NoFields] >>

on_new_span_keeps_nothing(attrs) == visit(NoFields)

\* on_new_span: the visitor put in the extensions of the new span.
on_new_span(attrs) == visit(attrs)

\* The thread creates its next span and enters it. A span on the stack has its
\* name, the values it was created with, the map on_new_span stored, and the
\* values it holds now.
NewSpan ==
    /\ Len(spans) < Len(Nesting)
    /\ LET span == Nesting[Len(spans) + 1]
       IN  spans' = Append(spans, [name |-> span.name, attrs |-> span.attrs,
                                   ext |-> on_new_span(span.attrs), now |-> span.attrs])
    /\ UNCHANGED <<store, rx, lock, prod, reader, pager, hook, ws, rust_log, process>>

\* span.record("n", 7) on the current span: the layer has no on_record, so the
\* map on_new_span stored stays as it is.
SpanRecord ==
    /\ spans # <<>>
    /\ F_n \notin DOMAIN spans[Len(spans)].now
    /\ spans' = [spans EXCEPT ![Len(spans)].now = @ @@ (F_n :> U64(7))]
    /\ UNCHANGED <<store, rx, lock, prod, reader, pager, hook, ws, rust_log, process>>

\* The thread leaves the current span.
ExitSpan ==
    /\ spans # <<>>
    /\ spans' = SubSeq(spans, 1, Len(spans) - 1)
    /\ UNCHANGED <<store, rx, lock, prod, reader, pager, hook, ws, rust_log, process>>

SpanRaw == Raw(<<"a","p","p">>, "Level::INFO", OnlyMessage @@ (F_k :> Bool(TRUE)))

\* The thread emits an event: in the current context, as a root
\* (parent: None), or with one of its spans named as parent.
OnEventInSpan ==
    /\ Len(hook) < MaxSpanEvents
    /\ \E parent \in {Contextual, Root} \cup {Explicit(i) : i \in 1..Len(spans)} :
          \E order \in iteration_orders(DOMAIN SpanRaw.fields) :
              on_event([SpanRaw EXCEPT !.parent = parent], order)
    /\ UNCHANGED <<max_events, last, rx, lock, prod, reader, pager, spans, ws, rust_log, process>>

NextSpans == NewSpan \/ SpanRecord \/ ExitSpan \/ OnEventInSpan

SpecSpans == InitCapture /\ [][NextSpans]_vars

\* The span information the claim expects for an event inside span `sp`.
ClaimSpanInfo(sp) ==
    Some([name |-> sp.name,
          fields |-> [name \in DOMAIN sp.attrs |-> ClaimText(sp.attrs[name])]])

\* C26 as stated: an event emitted inside spans carries the name of the
\* innermost one and the fields that one was created with, and an event
\* emitted outside any span has no span.
C26_InnermostSpan ==
    \A i \in 1..Len(hook) :
        hook[i].stored # None =>
            unwrap(hook[i].stored).span =
                IF hook[i].inside = <<>> THEN None
                ELSE ClaimSpanInfo(hook[i].inside[Len(hook[i].inside)])

\* C26, amended: an event emitted in the current context carries the name of
\* the innermost span around it and the fields that span was created with,
\* not those recorded later and not those of outer spans, and has no span
\* outside any span; an event that names its parent carries that span's name
\* and creation fields instead, and a root event has no span.
C26_ParentSpan ==
    \A i \in 1..Len(hook) :
        hook[i].stored # None =>
            unwrap(hook[i].stored).span =
                IF hook[i].raw.parent = Root THEN None
                ELSE IF hook[i].raw.parent = Contextual
                     THEN IF hook[i].inside = <<>> THEN None
                          ELSE ClaimSpanInfo(hook[i].inside[Len(hook[i].inside)])
                     ELSE ClaimSpanInfo(hook[i].inside[hook[i].raw.parent[2]])

C26_Witness ==
    /\ Len(hook) = 2
    /\ Len(hook[1].inside) = 2
    /\ hook[1].raw.parent = Contextual
    /\ F_n \in DOMAIN hook[1].inside[2].now
    /\ unwrap(hook[1].stored).span = Some([name |-> <<"d","b">>, fields |-> visit(NoFields)])
    /\ hook[2].raw.parent = Explicit(1)
    /\ unwrap(hook[2].stored).span =
          Some([name |-> <<"r","e","q">>, fields |-> F_k :> <<"1","2">>])

(***************************************************************************)
(* The WebSocket endpoint: handle_ws_connection, one handler per           *)
(* connection, and the pipeline its own log events go through.             *)
(***************************************************************************)

MaxWsPush == 2
MaxInputs == 2
MaxSerializeErrors == 1

OWN == <<"t","r","a","c","i","n","g","_","w","e","b","_","c","o","n","s","o","l","e">>
S_log == <<"l","o","g">>

HANDLER_TARGET_foreign == <<"w","s">>

\* module_path!() of api/logs.rs, the target of the handler's tracing macros.
HANDLER_TARGET == <<"t","r","a","c","i","n","g","_","w","e","b","_","c","o","n","s","o","l","e",":",":","a","p","i",":",":","l","o","g","s">>

\* EnvFilter::new("trace,tracing_web_console=off,log=off"): a directive with
\* a target applies to the targets that start with it.
default_directives(target) == ~starts_with(target, OWN) /\ ~starts_with(target, S_log)

\* The EnvFilter of TracingLayer::with_capacity: the directives of RUST_LOG
\* when it is set, the default directives otherwise.
env_filter(target) == IF rust_log = UNSET THEN default_directives(target) ELSE TRUE

\* The deny list of the capture hook of this crate: the one of
\* tracing-subscriber-axum with the library's own module path in it.
FILTERED_TARGETS_CONSOLE ==
    << <<"l","o","g">>,
       OWN,
       <<"t","u","n","g","s","t","e","n","i","t","e">>,
       <<"t","o","k","i","o","_","t","u","n","g","s","t","e","n","i","t","e">> >>

is_filtered_console(actual_target) ==
    \E i \in 1..Len(FILTERED_TARGETS_CONSOLE) :
        \/ actual_target = FILTERED_TARGETS_CONSOLE[i]
        \/ starts_with(actual_target, FILTERED_TARGETS_CONSOLE[i] \o SEP)

\* on_event of the capture hook of this crate.
on_event_console(raw, order) ==
    IF is_filtered_console(actual_target_of(raw))
    THEN /\ hook' = Append(hook, [raw |-> raw, inside |-> spans, stored |-> None])
         /\ UNCHANGED <<events, tx, pushed>>
    ELSE LET log_event == [timestamp |-> Len(pushed) + 1,
                           level |-> level_to_string(raw.level),
                           target |-> actual_target_of(raw),
                           message |-> extract_message(raw, order),
                           fields |-> scrub(visit(raw.fields)),
                           span |-> extract_span_info(raw, spans)]
         IN  /\ hook' = Append(hook, [raw |-> raw, inside |-> spans,
                                      stored |-> Some(log_event)])
             /\ events' = push(events, max_events, log_event)
             /\ tx' = send(tx, log_event)
             /\ pushed' = Append(pushed, log_event)

\* A tracing macro call: the event goes to the hook when the EnvFilter
\* enables it, and nowhere otherwise.
Emit(raw) ==
    IF env_filter(raw.target)
    THEN on_event_console(raw, <<F_message>>)
    ELSE UNCHANGED <<events, tx, pushed, hook>>

\* tracing::debug!(..), warn!(..) and error!(..) of handle_ws_connection.
HandlerLog(level, text) ==
    [target |-> HANDLER_TARGET, level |-> level, fields |-> F_message :> Args(text),
     parent |-> Contextual]

\* serde_json::to_string(&log_event): the keys of the object; span is left
\* out when None.
to_json(event) ==
    IF event.span = None
    THEN [timestamp |-> event.timestamp, level |-> event.level, target |-> event.target,
          message |-> event.message, fields |-> event.fields]
    ELSE [timestamp |-> event.timestamp, level |-> event.level, target |-> event.target,
          message |-> event.message, fields |-> event.fields, span |-> unwrap(event.span)]

Text(json) == [kind |-> "Text", body |-> <<json>>]
Pong(data) == [kind |-> "Pong", body |-> data]
Ping(data) == [kind |-> "Ping", body |-> data]

Input(kind, data) == [kind |-> kind, data |-> data]

\* tracing::info!("m") somewhere in the host, module path app.
HostRaw == Raw(<<"a","p","p">>, "Level::INFO", OnlyMessage)

\* The host emits an event.
HostEvent ==
    /\ \/ Len(pushed) < MaxWsPush
       \/ Len(pushed) >= MaxBurst /\ Len(pushed) < MaxBurst + MaxWsPush
    /\ Emit(HostRaw)
    /\ UNCHANGED <<max_events, last, rx, lock, prod, reader, pager, spans, ws, rust_log, process>>

\* ws_logs upgrades, and the handler starts:
\* tracing::debug!("WebSocket connection established")
Connect(c) ==
    /\ ws[c].pc = "none"
    /\ Emit(HandlerLog("Level::DEBUG", <<"e","s","t","a","b","l","i","s","h","e","d">>))
    /\ ws' = [ws EXCEPT ![c].pc = "subscribe"]
    /\ UNCHANGED <<max_events, last, rx, lock, prod, reader, pager, spans, rust_log, process>>

\* let mut rx = state.storage.subscribe();
SubscribeWs(c) ==
    /\ ws[c].pc = "subscribe"
    /\ rx' = [rx EXCEPT ![c] = [live |-> TRUE, next |-> subscribe(tx),
                                start |-> tail_pos(tx), got |-> <<>>]]
    /\ tx' = [tx EXCEPT !.rx_cnt = @ + 1]
    /\ ws' = [ws EXCEPT ![c].pc = "loop"]
    /\ UNCHANGED <<max_events, events, pushed, last, lock, prod, reader, pager, hook, spans, rust_log, process>>

on_lagged_breaks(conn, count) ==
    [conn EXCEPT !.seen = Append(@, Input("lagged", <<count>>)), !.pc = "exit"]

\* The arm Err(RecvError::Lagged(count)): continue.
on_lagged(conn, count) ==
    [conn EXCEPT !.seen = Append(@, Input("lagged", <<count>>))]

recv_ready_when_no_send_waits(c) ==
    /\ rx[c].next # tail_pos(tx)
    /\ \A d \in Receivers : ws[d].pc # "sending"

recv_ready_when_two_unread(c) == tail_pos(tx) - rx[c].next >= 2

\* rx.recv() completes as soon as the receiver's cursor is behind the tail of
\* the bus.
recv_ready(c) == rx[c].next # tail_pos(tx)

\* The rx.recv() arm of select!: an event is serialized and its send begun, or
\* the serialization error logged; a lag is logged.
BusRecv(c) ==
    /\ ws[c].pc = "loop"
    /\ recv_ready(c)
    /\ LET r == recv(tx, rx[c].next) IN
       /\ rx' = [rx EXCEPT ![c].next = r.next, ![c].got = Append(@, r.result)]
       /\ IF r.result.ok
          THEN \/ /\ ws' = [ws EXCEPT ![c].pc = "sending",
                                      ![c].pending = Some(Text(to_json(r.result.value))),
                                      ![c].seen = Append(@, Input("event", <<>>))]
                  /\ UNCHANGED <<events, tx, pushed, hook>>
               \/ /\ Cardinality({i \in 1..Len(ws[c].seen) :
                                      ws[c].seen[i].kind = "serialize_error"})
                         < MaxSerializeErrors
                  /\ ws' = [ws EXCEPT ![c].seen = Append(@, Input("serialize_error", <<>>))]
                  /\ Emit(HandlerLog("Level::ERROR", <<"s","e","r","i","a","l","i","z","e">>))
          ELSE /\ ws' = [ws EXCEPT ![c] = on_lagged(@, r.result.missed)]
               /\ Emit(HandlerLog("Level::DEBUG",
                                  <<"l","a","g","g","e","d"," ">> \o decimal(r.result.missed)))
    /\ UNCHANGED <<max_events, last, lock, prod, reader, pager, spans, rust_log, process>>

\* The frames socket.recv() can yield: what the client sent, an error, or
\* None at the end of the stream.
ClientInputs ==
    { Input("Ping", <<>>), Input("Ping", <<1>>), Input("Pong", <<>>), Input("Close", <<>>),
      Input("Text", <<>>), Input("Err", <<>>), Input("None", <<>>) }

stays_after_any(input) == TRUE

\* The arms of `match msg`: TRUE for those that fall through to the next
\* round of the loop, FALSE for those that break.
stays_after(input) == input.kind \in {"Ping", "Pong", "Text"}

pong_is_empty(data) == <<>>

\* Message::Pong(data) of the Ping arm.
pong_for(data) == data

\* The socket.recv() arm of select!.
ClientFrame(c) ==
    /\ ws[c].pc = "loop"
    /\ Cardinality({i \in 1..Len(ws[c].seen) :
                       ws[c].seen[i].kind \notin {"event", "serialize_error", "lagged"}})
          < MaxInputs
    /\ \E input \in ClientInputs :
          /\ ws' = [ws EXCEPT ![c].seen = Append(@, input),
                              ![c].pc = IF ~stays_after(input) THEN "exit"
                                        ELSE IF input.kind = "Ping" THEN "sending"
                                        ELSE "loop",
                              ![c].pending = IF input.kind = "Ping"
                                             THEN Some(Pong(pong_for(input.data)))
                                             ELSE None]
          /\ IF input.kind \in {"Close", "Err", "None"}
             THEN Emit(HandlerLog("Level::DEBUG", <<"c","l","o","s","e","d"," ","b","y"," ","c","l","i","e","n","t">>))
             ELSE UNCHANGED <<events, tx, pushed, hook>>
    /\ UNCHANGED <<max_events, last, rx, lock, prod, reader, pager, spans, rust_log, process>>

\* The ping_interval.tick() arm of select!.
Tick(c) ==
    /\ ws[c].pc = "loop"
    /\ Cardinality({i \in 1..Len(ws[c].seen) :
                       ws[c].seen[i].kind \notin {"event", "serialize_error", "lagged"}})
          < MaxInputs
    /\ ws' = [ws EXCEPT ![c].seen = Append(@, Input("tick", <<>>)),
                        ![c].pc = "sending",
                        ![c].pending = Some(Ping(<<>>))]
    /\ UNCHANGED <<store, rx, lock, prod, reader, pager, hook, spans, rust_log, process>>

\* socket.send(..).await returns Ok: the client has the message.
SendDone(c) ==
    /\ ws[c].pc = "sending"
    /\ ws' = [ws EXCEPT ![c].pc = "loop", ![c].pending = None,
                        ![c].out = Append(@, unwrap(ws[c].pending)),
                        ![c].seen = Append(@, Input("send_ok", <<>>))]
    /\ UNCHANGED <<store, rx, lock, prod, reader, pager, hook, spans, rust_log, process>>

\* socket.send(..).await returns Err: break, after a debug! line when the send
\* was that of an event or of the keep-alive ping.
SendFailed(c) ==
    /\ ws[c].pc = "sending"
    /\ ws' = [ws EXCEPT ![c].pc = "exit", ![c].pending = None,
                        ![c].seen = Append(@, Input("send_err", <<>>))]
    /\ IF unwrap(ws[c].pending).kind = "Pong"
       THEN UNCHANGED <<events, tx, pushed, hook>>
       ELSE Emit(HandlerLog("Level::DEBUG", <<"d","i","s","c","o","n","n","e","c","t","e","d">>))
    /\ UNCHANGED <<max_events, last, rx, lock, prod, reader, pager, spans, rust_log, process>>

\* After the loop: tracing::debug!("WebSocket connection closed").
Leave(c) ==
    /\ ws[c].pc = "exit"
    /\ Emit(HandlerLog("Level::DEBUG", <<"c","l","o","s","e","d">>))
    /\ ws' = [ws EXCEPT ![c].pc = "drop"]
    /\ UNCHANGED <<max_events, last, rx, lock, prod, reader, pager, spans, rust_log, process>>

\* The handler returns: rx and the socket are dropped.
Drop(c) ==
    /\ ws[c].pc = "drop"
    /\ rx' = [rx EXCEPT ![c].live = FALSE]
    /\ tx' = [tx EXCEPT !.rx_cnt = @ - 1]
    /\ ws' = [ws EXCEPT ![c].pc = "closed"]
    /\ UNCHANGED <<max_events, events, pushed, last, lock, prod, reader, pager, hook, spans, rust_log, process>>

\* TracingLayer::with_capacity, before any connection.
InitStream ==
    /\ max_events = MaxCap
    /\ events = <<>>
    /\ tx = [capacity |-> BROADCAST_CAPACITY, rx_cnt |-> 0, sent |-> <<>>]
    /\ pushed = <<>>
    /\ last = None
    /\ rx = [r \in Receivers |-> [live |-> FALSE, next |-> 0, start |-> 0, got |-> <<>>]]
    /\ lock = [writer |-> 0, readers |-> {}]
    /\ prod = [p \in Producers |-> [pc |-> "idle", event |-> None]]
    /\ reader = [pc |-> "idle", result |-> None]
    /\ pager = <<>>
    /\ hook = <<>>
    /\ spans = <<>>
    /\ ws = [c \in Receivers |-> NoConnection]
    /\ rust_log \in RustLogs
    /\ process = NoLayers

\* One connection with a client that sends frames and takes or refuses what
\* it is sent, and one with a client that only takes events, at its own pace.
NextStream ==
    \/ HostEvent
    \/ \E c \in {FAST, SLOW} :
          \/ Connect(c)
          \/ SubscribeWs(c)
          \/ BusRecv(c)
          \/ SendDone(c)
    \/ ClientFrame(FAST)
    \/ Tick(FAST)
    \/ SendFailed(FAST)
    \/ Leave(FAST)
    \/ Drop(FAST)

SpecStream == InitStream /\ [][NextStream]_vars

\* The event the hook stores for the i-th emit of the host.
HostLogEvent(i) ==
    [timestamp |-> i,
     level |-> level_to_string(HostRaw.level),
     target |-> actual_target_of(HostRaw),
     message |-> extract_message(HostRaw, <<F_message>>),
     fields |-> scrub(visit(HostRaw.fields)),
     span |-> extract_span_info(HostRaw, <<>>)]

HookEntry(raw, stored) == [raw |-> raw, inside |-> <<>>, stored |-> stored]

\* What the hook was given by then: the events of the host and, when RUST_LOG
\* lets them through, the handler's first line and its line for each
\* serialization failure, right after the event that failed.
HookAfterBurst ==
    LET failed == MaxSerializeErrors
        host(i) == HookEntry(HostRaw, Some(HostLogEvent(i)))
    IN  IF env_filter(HANDLER_TARGET)
        THEN [j \in 1..(1 + 2 * failed + MaxBurst) |->
                 IF j = 1
                 THEN HookEntry(HandlerLog("Level::DEBUG", <<"e","s","t","a","b","l","i","s","h","e","d">>), None)
                 ELSE IF j > 2 * failed + 1 THEN host(j - failed - 1)
                 ELSE IF j % 2 = 0 THEN host(j \div 2)
                 ELSE HookEntry(HandlerLog("Level::ERROR", <<"s","e","r","i","a","l","i","z","e">>), None)]
        ELSE [j \in 1..(failed + MaxBurst) |-> host(j)]

\* A connection was opened; the serialization of each of the first events the
\* host emitted failed; then the host emitted MaxBurst events before the
\* handler's task was polled again.
InitStreamLag ==
    /\ max_events = MaxCap
    /\ pushed = [i \in 1..(MaxSerializeErrors + MaxBurst) |-> HostLogEvent(i)]
    /\ events = SubSeq(pushed, Len(pushed) - MaxCap + 1, Len(pushed))
    /\ tx = [capacity |-> BROADCAST_CAPACITY, rx_cnt |-> 1, sent |-> pushed]
    /\ last = None
    /\ rx = [r \in Receivers |->
                IF r = SLOW
                THEN [live |-> TRUE, next |-> MaxSerializeErrors, start |-> 0,
                      got |-> [i \in 1..MaxSerializeErrors |->
                                  [ok |-> TRUE, value |-> HostLogEvent(i), missed |-> 0]]]
                ELSE [live |-> FALSE, next |-> 0, start |-> 0, got |-> <<>>]]
    /\ lock = [writer |-> 0, readers |-> {}]
    /\ prod = [p \in Producers |-> [pc |-> "idle", event |-> None]]
    /\ reader = [pc |-> "idle", result |-> None]
    /\ pager = <<>>
    /\ rust_log \in RustLogs
    /\ process = NoLayers
    /\ hook = HookAfterBurst
    /\ spans = <<>>
    /\ ws = [c \in Receivers |->
                IF c = SLOW
                THEN [NoConnection EXCEPT
                         !.pc = "loop",
                         !.seen = [i \in 1..MaxSerializeErrors |->
                                      Input("serialize_error", <<>>)]]
                ELSE NoConnection]

NextStreamLag ==
    \/ HostEvent
    \/ BusRecv(SLOW)
    \/ SendDone(SLOW)
    \/ SendFailed(SLOW)
    \/ Leave(SLOW)
    \/ Drop(SLOW)

SpecStreamLag == InitStreamLag /\ [][NextStreamLag]_vars

(***************************************************************************)
(* Claims about the WebSocket handler.                                     *)
(***************************************************************************)

\* What the claims call the end of a connection: the handler is past its loop.
LeftLoop(c) == ws[c].pc \in {"exit", "drop", "closed"}

\* The exit conditions the specification lists, as outcomes of a round of the
\* loop: a failed socket send, Close, a receive error, the end of the stream.
ExitConditions == {"send_err", "Close", "Err", "None"}

\* C28: a handler is past its loop if and only if the last thing that
\* happened to it is a failed socket send, a Close frame, a socket receive
\* error or the end of the stream (the bus cannot close while a handler, which
\* holds the state and its sender, runs); no such outcome is followed by
\* another round, and no other outcome (text frame, client Pong, Ping, tick,
\* event, serialization failure) takes the handler out of the loop.
C28_ExitConditions ==
    \A c \in Receivers :
        LET seen == ws[c].seen IN
        /\ LeftLoop(c) <=> (seen # <<>> /\ seen[Len(seen)].kind \in ExitConditions)
        /\ \A i \in 1..(Len(seen) - 1) : seen[i].kind \notin ExitConditions

\* A connection that took an event, a serialization failure, a client Pong
\* and a text frame and is still in its loop, ...
C28_Witness ==
    /\ ws[FAST].pc = "loop"
    /\ \E i, j \in 1..Len(ws[FAST].seen) :
          /\ ws[FAST].seen[i].kind = "serialize_error"
          /\ ws[FAST].seen[j].kind \in {"Pong", "Text"}
    /\ ws[SLOW].pc = "loop"
    /\ ws[SLOW].out # <<>>

\* ... and the frames of a kind among those the handler sent.
Sent(c, kind) == SelectSeq(ws[c].out, LAMBDA m : m.kind = kind)

\* The Ping frames a client sent whose answer the socket took.
RECURSIVE AnsweredPings(_)
AnsweredPings(seen) ==
    IF Len(seen) < 2 THEN <<>>
    ELSE IF seen[1].kind = "Ping" /\ seen[2].kind = "send_ok"
         THEN <<Pong(seen[1].data)>> \o AnsweredPings(Tail(Tail(seen)))
         ELSE AnsweredPings(Tail(seen))

PingAnswered(c) ==
    LET seen == ws[c].seen IN
    /\ Sent(c, "Pong") = AnsweredPings(seen)
    /\ \A i \in 1..Len(seen) :
          seen[i].kind = "Ping" =>
             IF i = Len(seen)
             THEN /\ ws[c].pc = "sending"
                  /\ ws[c].pending = Some(Pong(seen[i].data))
             ELSE /\ seen[i + 1].kind \in {"send_ok", "send_err"}
                  /\ seen[i + 1].kind = "send_ok" =>
                        \/ i + 1 < Len(seen)
                        \/ ws[c].pc = "loop"

PongIgnored(c) ==
    ws'[c].seen = Append(ws[c].seen, Input("Pong", <<>>)) =>
        /\ ws'[c] = [ws[c] EXCEPT !.seen = ws'[c].seen]
        /\ ws[c].pc = "loop"
        /\ UNCHANGED <<store, rx, lock, prod, reader, pager, hook, spans, rust_log, process>>

\* C29: the Pong frames a handler has sent are, in order, one for each client
\* Ping whose answer the socket took, each with the data of its Ping; a Ping
\* is followed by the send of its Pong and by nothing else, and after that
\* send the handler is back in its loop; a step that takes a client Pong
\* changes nothing but the record that it was taken.
C29_ControlFrames ==
    [][\A c \in Receivers : PingAnswered(c)' /\ PongIgnored(c)]_vars

\* A client that sent Ping(1) and then a Pong, got one Pong(1), and is still
\* connected.
C29_Witness ==
    /\ ws[FAST].pc = "loop"
    /\ Sent(FAST, "Pong") = <<Pong(<<1>>)>>
    /\ \E i \in 1..Len(ws[FAST].seen) : ws[FAST].seen[i] = Input("Pong", <<>>)

\* C30: while a handler awaits a socket send, the host can emit and
\* publish its next event, every other handler in its loop with an unread
\* event on the bus can take it, and every other handler's own send can
\* complete.
C30_Isolation ==
    \A c \in Receivers :
        ws[c].pc = "sending" =>
            /\ Len(pushed) < MaxWsPush => ENABLED HostEvent
            /\ \A d \in Receivers \ {c} :
                  /\ (ws[d].pc = "loop" /\ rx[d].next # tail_pos(tx)) => ENABLED BusRecv(d)
                  /\ ws[d].pc = "sending" => ENABLED SendDone(d)

\* The slow client has not yet taken the first event; the host has published
\* a second one, and the other client has both.
C30_Witness ==
    /\ ws[SLOW].pc = "sending"
    /\ ws[SLOW].out = <<>>
    /\ Len(pushed) = 2
    /\ Len(Sent(FAST, "Text")) = 2
    /\ Sent(FAST, "Text")[2] = Text(to_json(pushed[2]))

\* The frames a handler has sent, as the rounds of its loop and what the bus
\* gave it determine them: one text frame for each event whose send
\* succeeded, one Pong for each answered Ping, one Ping for each tick whose
\* send succeeded, and nothing for anything else.
RECURSIVE Frames(_, _)
Frames(seen, got) ==
    IF seen = <<>> THEN <<>>
    ELSE LET sent_ok == Len(seen) >= 2 /\ seen[2].kind = "send_ok" IN
         CASE seen[1].kind = "event" ->
                 (IF sent_ok THEN <<Text(to_json(got[1].value))>> ELSE <<>>)
                 \o Frames(Tail(seen), Tail(got))
           [] seen[1].kind \in {"serialize_error", "lagged"} ->
                 Frames(Tail(seen), Tail(got))
           [] seen[1].kind = "Ping" ->
                 (IF sent_ok THEN <<Pong(seen[1].data)>> ELSE <<>>)
                 \o Frames(Tail(seen), got)
           [] seen[1].kind = "tick" ->
                 (IF sent_ok THEN <<Ping(<<>>)>> ELSE <<>>)
                 \o Frames(Tail(seen), got)
           [] OTHER -> Frames(Tail(seen), got)

LaggedAt(c) == {g \in 1..Len(rx[c].got) : ~rx[c].got[g].ok}

\* C27: once the bus has reported a lag to a handler, the handler is in its
\* loop right after it, with nothing to send; what it takes from the bus from
\* then on are the events published after the ones it missed, one by one in
\* publish order; the frames it has sent are those of the events it took and
\* whose send succeeded, and none stands for the lag; and it is past its loop
\* only by a failed send.
C27_LagKeepsStream ==
    \A c \in Receivers :
        LaggedAt(c) # {} =>
            LET seen == ws[c].seen
                got == rx[c].got
                g == CHOOSE x \in LaggedAt(c) : \A y \in LaggedAt(c) : y <= x
                after == Len(got) - g
            IN  /\ seen[Len(seen)].kind = "lagged" =>
                      /\ ws[c].pc = "loop"
                      /\ ws[c].pending = None
                      /\ rx[c].live
                /\ \A k \in 1..after :
                      got[g + k].value = tx.sent[rx[c].next - after + k]
                /\ ws[c].out = Frames(seen, got)
                /\ \A m \in 1..Len(ws[c].out) : ws[c].out[m].kind = "Text"
                /\ LeftLoop(c) => seen[Len(seen)].kind = "send_err"

\* The handler lagged, and has since forwarded every event the bus kept for
\* it, up to one the host emitted after the lag.
C27_Witness ==
    /\ LaggedAt(SLOW) # {}
    /\ ws[SLOW].pc = "loop"
    /\ Len(pushed) > MaxSerializeErrors + MaxBurst
    /\ Len(ws[SLOW].out) > BROADCAST_CAPACITY
    /\ ws[SLOW].out[Len(ws[SLOW].out)] = Text(to_json(pushed[Len(pushed)]))

\* The entries of the hook's record that came from the stream handler.
FromHandler(h) == h.raw.target = HANDLER_TARGET

HandlerSaid(text) ==
    \E i \in 1..Len(hook) :
        /\ FromHandler(hook[i])
        /\ hook[i].raw.fields[F_message] = Args(text)

NoOwnEventKept ==
    /\ starts_with(HANDLER_TARGET, OWN \o SEP)
    /\ \A i \in 1..Len(hook) : FromHandler(hook[i]) => hook[i].stored = None
    /\ \A i \in 1..Len(pushed) : pushed[i] = HostLogEvent(i)
    /\ \A i \in 1..Len(tx.sent) : tx.sent[i] = HostLogEvent(tx.sent[i].timestamp)
    /\ \A i \in 1..Len(events) : ~starts_with(events[i].target, OWN)

\* C21: the events of the stream handler are under the library's module
\* path; none of them is stored or published, so that the ring and the bus
\* hold the host's events only; a step of a handler (taking an event or a lag
\* from the bus, ending a send, leaving) leaves the ring and the bus as they
\* are; and a step gives the hook at most one event, which pushes at most
\* once, so that push is never entered from within push.
C21_NoFeedbackLoop ==
    [][/\ NoOwnEventKept'
       /\ ws' # ws => UNCHANGED <<events, pushed>> /\ tx'.sent = tx.sent
       /\ Len(hook') <= Len(hook) + 1
       /\ Len(pushed') <= Len(pushed) + (Len(hook') - Len(hook))]_vars

\* With RUST_LOG=trace the hook was given the handler's lines for the
\* connection, the serialization failure, the lag, the failed send and the
\* end of the connection, and the host's events are all there is on the bus.
C21_Witness ==
    /\ ws[SLOW].pc = "closed"
    /\ HandlerSaid(<<"e","s","t","a","b","l","i","s","h","e","d">>)
    /\ HandlerSaid(<<"s","e","r","i","a","l","i","z","e">>)
    /\ HandlerSaid(<<"l","a","g","g","e","d"," ","2">>)
    /\ HandlerSaid(<<"d","i","s","c","o","n","n","e","c","t","e","d">>)
    /\ HandlerSaid(<<"c","l","o","s","e","d">>)
    /\ Len(ws[SLOW].out) > 0
    /\ Len(pushed) = MaxSerializeErrors + MaxBurst

(***************************************************************************)
(* Claims about queries and subscriptions that race with pushes.           *)
(***************************************************************************)

\* C39: a query that reads the ring after max_events pushes have been
\* appended counts exactly max_events events, whatever the producers that
\* race with it are doing: it never sees the ring between the eviction and
\* the append of a push.
C39_FullRingTotal ==
    (reader.pc = "release" /\ Len(pushed) >= max_events) =>
        /\ unwrap(reader.result).total = max_events
        /\ Len(unwrap(reader.result).logs) = max_events

\* The ring is full and has evicted; a query has counted it while a producer
\* waits for the lock to push the next event.
C39_Witness ==
    /\ reader.pc = "release"
    /\ Len(pushed) > max_events
    /\ unwrap(reader.result).total = max_events
    /\ \E p \in Producers : prod[p].pc = "write"

(***************************************************************************)
(* GET /api/targets: LogStorage::get_targets.                              *)
(***************************************************************************)

\* The byte of a character, for the characters of the targets.
byte(c) ==
    CASE c = ":" -> 58
      [] c = " " -> 32
      [] c = "_" -> 95
      [] \E i \in 1..Len(UpperAlpha) : UpperAlpha[i] = c ->
            64 + (CHOOSE i \in 1..Len(UpperAlpha) : UpperAlpha[i] = c)
      [] \E i \in 1..Len(LowerAlpha) : LowerAlpha[i] = c ->
            96 + (CHOOSE i \in 1..Len(LowerAlpha) : LowerAlpha[i] = c)

\* Ord for String: byte by byte, a proper prefix first.
RECURSIVE str_le(_, _)
str_le(s, t) ==
    IF s = <<>> THEN TRUE
    ELSE IF t = <<>> THEN FALSE
    ELSE IF byte(Head(s)) # byte(Head(t)) THEN byte(Head(s)) < byte(Head(t))
    ELSE str_le(Tail(s), Tail(t))

RECURSIVE insert_sorted(_, _)
insert_sorted(v, s) ==
    IF v = <<>> THEN <<s>>
    ELSE IF str_le(s, Head(v)) THEN <<s>> \o v
    ELSE <<Head(v)>> \o insert_sorted(Tail(v), s)

unsorted(v) == v

\* targets.sort()
RECURSIVE sort(_)
sort(v) == IF v = <<>> THEN <<>> ELSE insert_sorted(sort(Tail(v)), Head(v))

\* The HashSet of the targets of the ring.
target_set(ring) == {ring[i].target : i \in 1..Len(ring)}

\* LogStorage::get_targets; `order` is the order in which the HashSet yields
\* its elements.
get_targets(ring, order) == sort(order)

\* GET /api/targets, whole, under the read lock of the ring.
GetTargets ==
    /\ last = None
    /\ \E order \in iteration_orders(target_set(events)) :
          last' = Some([request |-> "targets",
                        ring |-> events,
                        response |-> [targets |-> get_targets(events, order),
                                      status |-> 200]])
    /\ UNCHANGED <<max_events, events, tx, pushed, conc>>

NextTargets == Push \/ GetTargets \/ Reply

SpecTargets == Init /\ [][NextTargets]_vars

\* The targets of the events pushed, in ascending order of their bytes.
Ascending == <<T_Ab, T_a_o, T_a_x, T_a_x_y, T_ab>>

\* C34: the answer of get_targets lists, in ascending order and once each,
\* the targets that events now in the ring have, and no other.
C34_TargetsSortedUnique ==
    last # None =>
        unwrap(last).response.targets =
            SelectSeq(Ascending, LAMBDA t : \E i \in 1..Len(events) : events[i].target = t)

\* Two events are in the ring, the one with the greater target pushed first;
\* a third target was evicted with its only event and is not in the answer.
C34_Witness ==
    /\ last # None
    /\ Len(events) = 2
    /\ events[1].target = T_a_x
    /\ events[2].target = T_Ab
    /\ unwrap(last).response.targets = <<T_Ab, T_a_x>>
    /\ \E i \in 1..Len(pushed) : pushed[i].target \notin target_set(events)

(***************************************************************************)
(* TracingLayer::with_capacity, called any number of times in a process    *)
(* where the host may install a subscriber of its own.                     *)
(***************************************************************************)

MaxMounts == 2
MaxEmitted == 2

\* The subscriber the host installs by itself; TracingLayers are 1, 2, ...
HOST == 0

set_global_default_replaces(global, dispatch) ==
    [ok |-> TRUE, global |-> Some(dispatch)]

\* try_init: tracing's set_global_default succeeds once per process.
set_global_default(global, dispatch) ==
    IF global = None
    THEN [ok |-> TRUE, global |-> Some(dispatch)]
    ELSE [ok |-> FALSE, global |-> global]

panics_on_err(result) == ~result.ok

\* .try_init().ok(): the error is turned into None and dropped.
panics(result) == FALSE

\* LogStorage::with_capacity; `pushed` is the record of its pushes.
with_capacity(capacity) ==
    [max_events |-> capacity,
     events |-> <<>>,
     tx |-> [capacity |-> BROADCAST_CAPACITY, rx_cnt |-> 0, sent |-> <<>>],
     pushed |-> <<>>]

hooks_of_every_layer(global, n) == 1..n

\* The TracingLayers whose capture hook gets the events: the hook is a layer
\* of the subscriber built in with_capacity, and gets events when that
\* subscriber is the global default.
hooks_installed(global, n) ==
    IF global # None /\ unwrap(global) # HOST THEN {unwrap(global)} ELSE {}

\* The hook bound to a storage is given the n-th event of the host.
capture(storage, n) ==
    IF ~env_filter(HostRaw.target) \/ is_filtered_console(actual_target_of(HostRaw))
    THEN storage
    ELSE [storage EXCEPT !.events = push(storage.events, storage.max_events, HostLogEvent(n)),
                         !.tx = send(storage.tx, HostLogEvent(n)),
                         !.pushed = Append(storage.pushed, HostLogEvent(n))]

\* The host installs its own global subscriber, if none is set.
HostInit ==
    /\ process.global_default = None
    /\ process' = [process EXCEPT
                      !.global_default = set_global_default(@, HOST).global]
    /\ UNCHANGED <<store, rx, lock, prod, reader, pager, hook, spans, ws, rust_log>>

\* TracingLayer::with_capacity(base_path, capacity)
Mount ==
    /\ ~process.panicked
    /\ Len(process.layers) < MaxMounts
    /\ \E capacity \in 1..MaxCap :
          LET result == set_global_default(process.global_default, Len(process.layers) + 1)
          IN  process' =
                 IF panics(result)
                 THEN [process EXCEPT !.panicked = TRUE]
                 ELSE [process EXCEPT !.global_default = result.global,
                                      !.layers = Append(@, with_capacity(capacity))]
    /\ UNCHANGED <<store, rx, lock, prod, reader, pager, hook, spans, ws, rust_log>>

\* A WebSocket client of the router of layer i: storage.subscribe().
SubscribeLayer(i) ==
    /\ i \in 1..Len(process.layers)
    /\ process.layers[i].tx.rx_cnt = 0
    /\ process' = [process EXCEPT !.layers[i].tx.rx_cnt = 1]
    /\ UNCHANGED <<store, rx, lock, prod, reader, pager, hook, spans, ws, rust_log>>

\* The host emits an event: the global default subscriber gets it.
Log ==
    /\ process.emitted < MaxEmitted
    /\ process' =
          [process EXCEPT
              !.emitted = @ + 1,
              !.layers = [i \in 1..Len(process.layers) |->
                             IF i \in hooks_installed(process.global_default,
                                                      Len(process.layers))
                             THEN capture(process.layers[i], process.emitted + 1)
                             ELSE process.layers[i]]]
    /\ UNCHANGED <<store, rx, lock, prod, reader, pager, hook, spans, ws, rust_log>>

\* POST /api/logs on the router of layer i.
QueryLayer(i) ==
    /\ i \in 1..Len(process.layers)
    /\ last = None
    /\ last' = Some([request |-> DefaultRequest,
                     layer |-> i,
                     ring |-> process.layers[i].events,
                     response |-> get_logs(process.layers[i].events, DefaultRequest, <<>>)])
    /\ UNCHANGED <<max_events, events, tx, pushed, conc>>

NextMount ==
    \/ HostInit
    \/ Mount
    \/ Log
    \/ \E i \in 1..MaxMounts : SubscribeLayer(i) \/ QueryLayer(i)
    \/ Reply

SpecMount == Init /\ [][NextMount]_vars

\* C32: no construction of a TracingLayer panics, whoever set the global
\* default subscriber before; while the bound on constructions allows it a
\* further construction can be made; and the router of every layer constructed
\* answers a query with status 200 from that layer's own ring.
C32_MountNeverFails ==
    /\ ~process.panicked
    /\ Len(process.layers) < MaxMounts => ENABLED Mount
    /\ (last # None /\ "layer" \in DOMAIN unwrap(last)) =>
          /\ unwrap(last).response.status = 200
          /\ unwrap(last).response.total = Len(unwrap(last).ring)

\* The host installed its subscriber first; two TracingLayers were constructed
\* after it, and the second one's router answered a query.
C32_Witness ==
    /\ process.global_default = Some(HOST)
    /\ Len(process.layers) = 2
    /\ last # None
    /\ unwrap(last).layer = 2
    /\ unwrap(last).response.status = 200

\* How many times the n-th event of the host is in the rings' histories.
Captures(n) ==
    Cardinality({<<i, k>> \in (1..Len(process.layers)) \X (1..MaxEmitted) :
                    /\ k <= Len(process.layers[i].pushed)
                    /\ process.layers[i].pushed[k] = HostLogEvent(n)})

\* C33: whatever number of TracingLayers was constructed, every event the host
\* emitted was captured at most once over all the layers' storages, and at
\* most one layer's storage has captured anything.
C33_OneHook ==
    /\ \A n \in 1..process.emitted : Captures(n) <= 1
    /\ Cardinality({i \in 1..Len(process.layers) : process.layers[i].pushed # <<>>}) <= 1

\* Two TracingLayers were constructed before the host emitted two events:
\* each event is in the first layer's ring once, and nowhere else.
C33_Witness ==
    /\ Len(process.layers) = 2
    /\ process.emitted = 2
    /\ process.layers[1].max_events >= 2
    /\ process.layers[1].events = <<HostLogEvent(1), HostLogEvent(2)>>
    /\ process.layers[2].events = <<>>

\* The layers constructed when a global default subscriber was already set:
\* every layer after the first, and the first too when the host was there
\* before it.
Late(i) == i > 1 \/ process.global_default = Some(HOST)

\* C37: the ring of a TracingLayer constructed when a global default
\* subscriber was already set stays empty, nothing is published on its bus,
\* also with a subscriber on it, and its /api/logs answers total 0 with no
\* event, whatever the host emits.
C37_SecondMountCapturesNothing ==
    /\ \A i \in 1..Len(process.layers) :
          Late(i) =>
             /\ process.layers[i].events = <<>>
             /\ process.layers[i].pushed = <<>>
             /\ process.layers[i].tx.sent = <<>>
    /\ (last # None /\ "layer" \in DOMAIN unwrap(last) /\ Late(unwrap(last).layer)) =>
          /\ unwrap(last).response.total = 0
          /\ unwrap(last).response.logs = <<>>

\* The second layer has a subscriber; the host emitted two events, which the
\* first layer captured; the second layer's router answered total 0.
C37_Witness ==
    /\ Len(process.layers) = 2
    /\ process.layers[2].tx.rx_cnt = 1
    /\ process.emitted = 2
    /\ Len(process.layers[1].pushed) = 2
    /\ last # None
    /\ unwrap(last).layer = 2
    /\ unwrap(last).response.total = 0

(***************************************************************************)
(* A client that opens the stream and then queries, while host threads     *)
(* push: the steps of push and of get_filtered beside those of the         *)
(* stream handler.                                                         *)
(***************************************************************************)

\* A host thread emits an event; the hook has built the LogEvent and calls
\* LogStorage::push with it.
CallHost(p) ==
    /\ prod[p].pc = "idle"
    /\ calls < MaxBusPush
    /\ prod' = [prod EXCEPT ![p] = [pc |-> "write", event |-> Some(HostLogEvent(calls + 1))]]
    /\ UNCHANGED <<store, rx, lock, reader, pager, hook, spans, ws, rust_log, process>>

\* The client sends POST /api/logs once its stream is open.
ClientQuery ==
    /\ rx[FAST].live
    /\ AcquireRead

NextTail ==
    \/ \E p \in Producers :
          \/ CallHost(p)
          \/ AcquireWrite(p)
          \/ Evict(p)
          \/ Publish(p)
          \/ PushBack(p)
          \/ ReleaseWrite(p)
    \/ Connect(FAST)
    \/ SubscribeWs(FAST)
    \/ BusRecv(FAST)
    \/ SendDone(FAST)
    \/ ClientQuery
    \/ ReadRing
    \/ ReleaseRead
    \/ Serialize

SpecTail == InitBus /\ [][NextTail]_vars

\* The events the bus has delivered to the stream of the client.
Delivered == {rx[FAST].got[g].value : g \in {h \in 1..Len(rx[FAST].got) : rx[FAST].got[h].ok}}

InAnswer(e) == \E j \in 1..Len(unwrap(reader.result).logs) : unwrap(reader.result).logs[j] = e

\* C35: in the answer of an unfiltered query, read under the read lock, is
\* every event the bus has delivered to a subscriber by then, except those
\* that max_events or more later pushes have evicted: no delivered event is
\* still on its way into the ring when a query reads it.
C35_DeliveredIsQueryable ==
    reader.pc = "release" =>
        \A e \in Delivered :
            \/ InAnswer(e)
            \/ \E i \in 1..(Len(pushed) - max_events) : pushed[i] = e

\* The stream has delivered two events; the query that followed has the
\* second one, the first was evicted, and a third push waits for the lock.
C35_Witness ==
    /\ reader.pc = "release"
    /\ max_events = 1
    /\ Len(rx[FAST].got) = 2
    /\ InAnswer(rx[FAST].got[2].value)
    /\ ~InAnswer(rx[FAST].got[1].value)
    /\ \E p \in Producers : prod[p].pc = "write"

\* Published on the bus after the client subscribed: delivered on the
\* subscription, now or later, or counted in a lag.
OnSubscription(e) ==
    \E k \in (rx[FAST].start + 1)..Len(tx.sent) : tx.sent[k] = e

\* Evicted when the query read the ring: the ring was full of later pushes.
EvictedBeforeQuery(i) ==
    /\ Len(unwrap(reader.result).logs) = max_events
    /\ \A j \in 1..Len(unwrap(reader.result).logs) :
          \E m \in (i + 1)..Len(pushed) : pushed[m] = unwrap(reader.result).logs[j]

\* C36: for a client that subscribed and then queried without filter, every
\* event pushed so far is in the answer of the query, or was published on the
\* bus after the subscription, or had been evicted when the query read the
\* ring.
C36_NoGap ==
    reader.result # None =>
        \A i \in 1..Len(pushed) :
            \/ InAnswer(pushed[i])
            \/ OnSubscription(pushed[i])
            \/ EvictedBeforeQuery(i)

\* The first event was published before the client subscribed: it is not on
\* the subscription, and the query has it. The last event was pushed after
\* the query read the ring: it is on the subscription and not in the answer.
C36_Witness ==
    /\ reader.result # None
    /\ Len(pushed) >= 2
    /\ InAnswer(pushed[1])
    /\ ~OnSubscription(pushed[1])
    /\ ~InAnswer(pushed[Len(pushed)])
    /\ OnSubscription(pushed[Len(pushed)])

\* A thread is inside push between taking and dropping the write guard, and
\* inside get_filtered between taking and dropping the read guard; neither
\* function awaits anything.
InsidePush(p) == prod[p].pc \in {"evict", "send", "push_back", "unlock"}
InsideGetFiltered == reader.pc \in {"read", "release"}

\* A stream handler is suspended at the select! of its loop or at a socket
\* send.
Suspended(c) == ws[c].pc \in {"loop", "sending"}

\* C31: the write lock of the ring is held only by a thread inside push and
\* the read lock only by a thread inside get_filtered, none of which is at a
\* suspension point; so whatever stream handlers are suspended, when no
\* thread is inside push or get_filtered the lock is free, a waiting push can
\* take it and a query can take it.
C31_NoLockAcrossSuspension ==
    /\ lock.writer # 0 => InsidePush(lock.writer)
    /\ \A t \in lock.readers : t = READER /\ InsideGetFiltered
    /\ ((\A p \in Producers : ~InsidePush(p)) /\ ~InsideGetFiltered) =>
          /\ lock = [writer |-> 0, readers |-> {}]
          /\ \A p \in Producers : prod[p].pc = "write" => ENABLED AcquireWrite(p)
          /\ (reader.pc = "idle" /\ rx[FAST].live) => ENABLED ClientQuery

\* The handler awaits a socket send, a query is being serialized after it
\* gave the lock back, and a push has taken the lock meanwhile.
C31_Witness ==
    /\ ws[FAST].pc = "sending"
    /\ reader.pc = "serialize"
    /\ lock.writer # 0
    /\ lock.readers = {}

\* The place in the publish order of the event of the m-th frame a handler
\* has sent; the events of the host carry their place as their timestamp.
PlaceOfFrame(c, m) == ws[c].out[m].body[1].timestamp

\* C38: every frame a handler has sent is a text frame of an event published
\* on the bus, and the places of these events in the publish order increase
\* strictly from each frame to the next, also after a lag: no event twice,
\* none before an earlier one.
C38_FramesFollowPublishOrder ==
    \A c \in Receivers :
        \A m \in 1..Len(ws[c].out) :
            /\ ws[c].out[m].kind = "Text"
            /\ PlaceOfFrame(c, m) \in 1..Len(tx.sent)
            /\ ws[c].out[m] = Text(to_json(tx.sent[PlaceOfFrame(c, m)]))
            /\ m > 1 => PlaceOfFrame(c, m - 1) < PlaceOfFrame(c, m)

\* After its first events were lost to a serialization failure and to a lag,
\* the handler has sent more than one frame, the first of which is not the
\* first event published.
C38_Witness ==
    /\ LaggedAt(SLOW) # {}
    /\ Len(ws[SLOW].out) >= 2
    /\ PlaceOfFrame(SLOW, 1) > MaxSerializeErrors + 1
    /\ PlaceOfFrame(SLOW, 1) = Len(tx.sent) - buffer_len(tx) + 1

(***************************************************************************)
(* Liveness of the stream: one connection, its client and the host.        *)
(***************************************************************************)

\* The timer goes on ticking every 30 seconds for as long as the connection
\* lasts. Past the MaxInputs rounds that `seen` and `out` record, a tick and
\* its ping are not recorded: the handler is sending the ping, ...
TickOn(c) ==
    /\ ws[c].pc = "loop"
    /\ Cardinality({i \in 1..Len(ws[c].seen) :
                       ws[c].seen[i].kind \notin {"event", "serialize_error", "lagged"}})
          >= MaxInputs
    /\ ws' = [ws EXCEPT ![c].pc = "pinging"]
    /\ UNCHANGED <<store, rx, lock, prod, reader, pager, hook, spans, rust_log, process>>

\* ... and the client's socket has taken it.
PingSent(c) ==
    /\ ws[c].pc = "pinging"
    /\ ws' = [ws EXCEPT ![c].pc = "loop"]
    /\ UNCHANGED <<store, rx, lock, prod, reader, pager, hook, spans, rust_log, process>>

NextLive ==
    \/ HostEvent
    \/ Connect(FAST)
    \/ SubscribeWs(FAST)
    \/ BusRecv(FAST)
    \/ ClientFrame(FAST)
    \/ Tick(FAST)
    \/ TickOn(FAST)
    \/ PingSent(FAST)
    \/ SendDone(FAST)
    \/ SendFailed(FAST)
    \/ Leave(FAST)
    \/ Drop(FAST)

\* select! polls its ready branches starting from one picked at random, so a
\* bus event that is ready at infinitely many rounds of the loop is taken at
\* one of them; a socket send that can complete does.
SpecLive ==
    /\ InitStream
    /\ [][NextLive]_vars
    /\ SF_vars(BusRecv(FAST))
    /\ WF_vars(SendDone(FAST))
    /\ WF_vars(PingSent(FAST))

\* The k-th event on the bus was published after the handler subscribed.
PublishedForStream(k) ==
    /\ rx[FAST].live
    /\ rx[FAST].start < k
    /\ k <= Len(tx.sent)

SentAsText(k) ==
    /\ k <= Len(tx.sent)
    /\ \E m \in 1..Len(ws[FAST].out) : ws[FAST].out[m] = Text(to_json(tx.sent[k]))

\* The cursor of the receiver before its g-th recv.
CursorBefore(g) ==
    rx[FAST].start
    + Cardinality({h \in 1..(g - 1) : rx[FAST].got[h].ok})
    + SumMissed(SubSeq(rx[FAST].got, 1, g - 1))

CoveredByLag(k) ==
    \E g \in LaggedAt(FAST) :
        CursorBefore(g) < k /\ k <= CursorBefore(g) + rx[FAST].got[g].missed

\* The rounds of the loop that took something from the bus, one for each
\* recv of the receiver.
BusRounds == SelectSeq(ws[FAST].seen,
                       LAMBDA i : i.kind \in {"event", "serialize_error", "lagged"})

SerializationFailed(k) ==
    /\ k <= Len(tx.sent)
    /\ \E g \in 1..Len(BusRounds) :
          /\ BusRounds[g].kind = "serialize_error"
          /\ rx[FAST].got[g].value = tx.sent[k]

====
